---- MODULE Spec2Model ----
EXTENDS Integers, Sequences, FiniteSets, TLC

(***************************************************************************)
(* Model of the response-repair parsers, the retrying inference client,    *)
(* the batched sentiment pipeline, the semantic ranker and the multi-video *)
(* flow of main.                                                           *)
(*                                                                         *)
(* Text is a sequence of characters; a character is a one-character        *)
(* string.  "\f" stands for the control characters below 32 other than     *)
(* newline, carriage return and tab; the characters a string of the module *)
(* cannot hold have names in angle brackets.                               *)
(***************************************************************************)

VARIABLES
    pInput,      \* parser run: the response handed to clean_json_response
    pBody,       \* parser run: the object text the response was built around
    pWrap,       \* parser run: how the object text was wrapped
    pStage,      \* parser run: "input", "repaired", "rerepaired"
    pFirst,      \* parser run: outcome of clean_json_response(pInput)
    pSecond,     \* parser run: outcome of clean_json_response(json.dumps(first))
    maxRetries,  \* _safe_api_call: max_retries
    initialDelay,\* _safe_api_call: initial_delay
    attempt,     \* _safe_api_call: attempt
    delay,       \* _safe_api_call: delay
    lastError,   \* _safe_api_call: last_error
    response,    \* _safe_api_call: response
    rcPc,        \* _safe_api_call: position in the loop body
    outcome,     \* _safe_api_call: how the call ended
    trace,       \* observer: the sleeps and the capability calls, in order
    parserRuns,  \* observer: the responses handed to clean_json_response
    comments,    \* display_sentiment_analysis: video_data['comments']
    topComments, \* display_sentiment_analysis: top_comments
    batchStart,  \* display_sentiment_analysis: loop variable i
    allAnalyses, \* display_sentiment_analysis: all_analyses
    sentiments,  \* display_sentiment_analysis: sentiments
    batchLog,    \* observer: the calls of analyze_comment_batch, in order
    sPc,         \* display_sentiment_analysis: position
    query,       \* SearchAnalyzer: the query of rank_videos or _find_relevant_segments
    modelLoaded, \* SearchAnalyzer: self.model is not None
    videos,      \* rank_videos: videos
    ranked,      \* rank_videos: how the call ended and what it returned
    transcript,  \* _find_relevant_segments: transcript
    segments,    \* _find_relevant_segments: segments
    relevant,    \* _find_relevant_segments: how the call ended and what it returned
    timestamp,   \* _timestamp_to_seconds: timestamp
    seconds,     \* _timestamp_to_seconds: how the call ended and what it returned
    searchPc,    \* SearchAnalyzer: which call runs, or "done"
    chResponse,  \* ChannelAnalyzer._clean_json_response: response
    chTitle,     \* ChannelAnalyzer._clean_json_response: title
    chVideoCount, \* ChannelAnalyzer._clean_json_response: video_count
    chResult,    \* ChannelAnalyzer._clean_json_response: how the call ended and what it returned
    chPc,        \* ChannelAnalyzer._clean_json_response: position
    subAnalyses, \* analyze_video_content: what the three calls of _safe_api_call returned
    failedComponents, \* analyze_video_content: failed_components
    contentResult,    \* analyze_video_content: how the call ended and what it returned
    contentPc,   \* analyze_video_content: position
    videosData,  \* main: videos_data, with the content analysis and the tallies of each video
    allSentiments,    \* main: all_sentiments
    videoScores, \* main: video_scores
    bestVideo,   \* main: how the recommendation ended, and best_video
    recPc,       \* main: position in the multi-video recommendation
    urlInputs,   \* main: the texts of the URL inputs
    newUrls,     \* main: new_urls
    urlIndex,    \* main: loop variable i of the URL inputs
    urlPc        \* main: position in the loop over the URL inputs

parserVars == <<pInput, pBody, pWrap, pStage, pFirst, pSecond>>
retryVars == <<maxRetries, initialDelay, attempt, delay, lastError, response,
               rcPc, outcome, trace, parserRuns>>
sentimentVars == <<comments, topComments, batchStart, allAnalyses, sentiments,
                   batchLog, sPc>>
searchVars == <<query, modelLoaded, videos, ranked, transcript, segments,
                relevant, timestamp, seconds, searchPc>>
channelVars == <<chResponse, chTitle, chVideoCount, chResult, chPc>>
contentVars == <<subAnalyses, failedComponents, contentResult, contentPc>>
recommendVars == <<videosData, allSentiments, videoScores, bestVideo, recPc>>
urlVars == <<urlInputs, newUrls, urlIndex, urlPc>>
mainVars == <<channelVars, contentVars, recommendVars, urlVars>>
vars == <<parserVars, retryVars, sentimentVars, searchVars, mainVars>>

----------------------------------------------------------------------------
(* Characters and text helpers                                             *)

Lower == {"a","b","c","d","e","f","g","h","i","j","k","l","m",
          "n","o","p","q","r","s","t","u","v","w","x","y","z"}
Upper == {"A","B","C","D","E","F","G","H","I","J","K","L","M",
          "N","O","P","Q","R","S","T","U","V","W","X","Y","Z"}
Digits == {"0","1","2","3","4","5","6","7","8","9"}
HexDigits == Digits \cup {"a","b","c","d","e","f","A","B","C","D","E","F"}

\* ord(char) < 32 and char not in "\n\r\t"
ControlChars == {"\f"}
\* what \s matches once the control characters are gone
Whitespace == {" ", "\t", "\n", "\r"}
\* the whitespace json.loads skips between tokens
JsonWhitespace == {" ", "\t", "\n", "\r"}

IdentStart == Lower \cup Upper \cup {"_"}
IdentChar == IdentStart \cup Digits

StartsWith(s, i, pat) ==
    /\ i >= 1
    /\ i + Len(pat) - 1 <= Len(s)
    /\ \A k \in 1..Len(pat) : s[i + k - 1] = pat[k]

\* str.find(pat) from index i: the first index of pat, 0 when there is none
RECURSIVE FindFrom(_, _, _)
FindFrom(s, pat, i) ==
    IF i + Len(pat) - 1 > Len(s) THEN 0
    ELSE IF StartsWith(s, i, pat) THEN i
    ELSE FindFrom(s, pat, i + 1)

Contains(s, pat) == FindFrom(s, pat, 1) # 0

\* str.rfind of one character: the last index of c, 0 when there is none
RECURSIVE RFindChar(_, _, _)
RFindChar(s, c, i) ==
    IF i < 1 THEN 0
    ELSE IF s[i] = c THEN i
    ELSE RFindChar(s, c, i - 1)

Drop(s, n) == SubSeq(s, n + 1, Len(s))

\* str.replace(pat, rep): leftmost, non-overlapping occurrences
RECURSIVE Replace(_, _, _)
Replace(s, pat, rep) ==
    LET i == FindFrom(s, pat, 1) IN
    IF i = 0 THEN s
    ELSE SubSeq(s, 1, i - 1) \o rep \o Replace(Drop(s, i + Len(pat) - 1), pat, rep)

\* str.split(sep)
RECURSIVE Split(_, _)
Split(s, sep) ==
    LET i == FindFrom(s, sep, 1) IN
    IF i = 0 THEN <<s>>
    ELSE <<SubSeq(s, 1, i - 1)>> \o Split(Drop(s, i + Len(sep) - 1), sep)

\* the first index >= i whose character is not in cls (Len(s)+1 when none)
RECURSIVE SkipClass(_, _, _)
SkipClass(s, i, cls) ==
    IF i > Len(s) THEN i
    ELSE IF s[i] \in cls THEN SkipClass(s, i + 1, cls)
    ELSE i

\* str.strip()
RECURSIVE RStrip(_)
RStrip(s) ==
    IF s # <<>> /\ s[Len(s)] \in Whitespace THEN RStrip(SubSeq(s, 1, Len(s) - 1))
    ELSE s

Strip(s) == RStrip(Drop(s, SkipClass(s, 1, Whitespace) - 1))

----------------------------------------------------------------------------
(* JSON values: one record shape for every value, so that any two are      *)
(* comparable.  t is the type tag; s is the text of a string, of a number  *)
(* literal or of a member's key; kids are an array's elements, an object's *)
(* members (tag "pair", in insertion order, keys unique) or a member's     *)
(* value.                                                                  *)

JV(t, s, kids) == [t |-> t, s |-> s, kids |-> kids]
JNull == JV("null", <<>>, <<>>)
JTrue == JV("true", <<>>, <<>>)
JFalse == JV("false", <<>>, <<>>)
JStr(s) == JV("str", s, <<>>)
JNum(s) == JV("num", s, <<>>)
JArr(items) == JV("arr", <<>>, items)
JPair(k, v) == JV("pair", k, <<v>>)
JObj(pairs) == JV("obj", <<>>, pairs)

IsDict(v) == v.t = "obj"
DictLen(v) == Len(v.kids)
DictKeys(v) == {v.kids[i].s : i \in 1..Len(v.kids)}
DictGet(v, k) == (CHOOSE p \in {v.kids[i] : i \in 1..Len(v.kids)} : p.s = k).kids[1]

\* dict[key] = val: a key already present keeps its place and takes the new value
DictSet(pairs, k, val) ==
    IF \E i \in 1..Len(pairs) : pairs[i].s = k
    THEN [i \in 1..Len(pairs) |-> IF pairs[i].s = k THEN JPair(k, val) ELSE pairs[i]]
    ELSE Append(pairs, JPair(k, val))

\* Python's == on parsed values: dicts compare without regard to order
RECURSIVE JEq(_, _)
JEq(a, b) ==
    /\ a.t = b.t
    /\ a.s = b.s
    /\ Len(a.kids) = Len(b.kids)
    /\ IF a.t = "obj"
       THEN \A i \in 1..Len(a.kids) :
              \E j \in 1..Len(b.kids) : JEq(a.kids[i], b.kids[j])
       ELSE \A i \in 1..Len(a.kids) : JEq(a.kids[i], b.kids[i])

----------------------------------------------------------------------------
(* json.loads (the standard decoder, strict mode)                          *)

ParseFail == [ok |-> FALSE, v |-> JNull, next |-> 0]
ParseOk(v, next) == [ok |-> TRUE, v |-> v, next |-> next]

BackspaceChar == "<BS>"
OtherUnicodeChar == "<U+00E9>"

\* the escapes of a JSON string other than \uXXXX
Unescape(c) ==
    CASE c = "b" -> BackspaceChar
      [] c = "f" -> "\f"
      [] c = "n" -> "\n"
      [] c = "r" -> "\r"
      [] c = "t" -> "\t"
      [] OTHER -> c

SimpleEscapes == {"\"", "\\", "/", "b", "f", "n", "r", "t"}

\* chr(int(h, 16)) for the code points the inputs use; every other code
\* point is one non-ASCII character
UnicodeChar(h) ==
    CASE h = <<"0","0","2","7">> -> "'"
      [] h \in {<<"0","0","2","c">>, <<"0","0","2","C">>} -> ","
      [] h \in {<<"0","0","0","a">>, <<"0","0","0","A">>} -> "\n"
      [] h = <<"0","0","2","0">> -> " "
      [] h \in {<<"0","0","4","e">>, <<"0","0","4","E">>} -> "N"
      [] OTHER -> OtherUnicodeChar

\* py_scanstring: s[i] is the character after the opening quote
RECURSIVE ScanString(_, _, _)
ScanString(s, i, acc) ==
    IF i > Len(s) THEN ParseFail
    ELSE IF s[i] = "\"" THEN ParseOk(JStr(acc), i + 1)
    ELSE IF s[i] \in ControlChars \cup {"\n", "\r", "\t"} THEN ParseFail
    ELSE IF s[i] # "\\" THEN ScanString(s, i + 1, Append(acc, s[i]))
    ELSE IF i + 1 > Len(s) THEN ParseFail
    ELSE IF s[i + 1] = "u"
         THEN IF i + 5 <= Len(s) /\ \A k \in 2..5 : s[i + k] \in HexDigits
              THEN ScanString(s, i + 6, Append(acc, UnicodeChar(SubSeq(s, i + 2, i + 5))))
              ELSE ParseFail
    ELSE IF s[i + 1] \in SimpleEscapes
         THEN ScanString(s, i + 2, Append(acc, Unescape(s[i + 1])))
    ELSE ParseFail

\* NUMBER_RE: (-?(?:0|[1-9]\d*))(\.\d+)?([eE][-+]?\d+)?; 0 when no match,
\* else the index after the literal
NumberEnd(s, i) ==
    LET a == IF i <= Len(s) /\ s[i] = "-" THEN i + 1 ELSE i
        b == IF a > Len(s) \/ s[a] \notin Digits THEN 0
             ELSE IF s[a] = "0" THEN a + 1
             ELSE SkipClass(s, a, Digits)
        c == IF b # 0 /\ b + 1 <= Len(s) /\ s[b] = "." /\ s[b + 1] \in Digits
             THEN SkipClass(s, b + 1, Digits) ELSE b
        d == IF c # 0 /\ c <= Len(s) /\ s[c] \in {"e", "E"}
             THEN IF c + 1 <= Len(s) /\ s[c + 1] \in {"-", "+"} THEN c + 2 ELSE c + 1
             ELSE 0
    IN  IF d # 0 /\ d <= Len(s) /\ s[d] \in Digits THEN SkipClass(s, d, Digits) ELSE c

\* The decoder is one recursive operator, Parse, for its three mutually
\* recursive parts:
\*   "value"    scan_once at s[i];
\*   "members"  the member loop of JSONObject, s[i] the opening quote of a
\*              key and acc the members so far;
\*   "elements" the element loop of JSONArray, a value starting at s[i] and
\*              acc the elements so far.
\* The operators before it are the steps of the loops, each taking what the
\* step before it produced.
RECURSIVE Parse(_, _, _, _)

\* JSONObject after a "," and whitespace, at s[n]: the next key must follow
NextKey(s, acc, n) ==
    IF n > Len(s) \/ s[n] # "\"" THEN ParseFail
    ELSE Parse("members", s, n, acc)

\* JSONObject after a member and whitespace, at s[e]
AfterMember(s, acc, e) ==
    IF e > Len(s) THEN ParseFail
    ELSE IF s[e] = "}" THEN ParseOk(JObj(acc), e + 1)
    ELSE IF s[e] # "," THEN ParseFail
    ELSE NextKey(s, acc, SkipClass(s, e + 1, JsonWhitespace))

\* JSONObject after the value val of the member named key
AfterMemberValue(s, acc, key, val) ==
    IF ~val.ok THEN ParseFail
    ELSE AfterMember(s, DictSet(acc, key, val.v), SkipClass(s, val.next, JsonWhitespace))

\* JSONObject after a key and whitespace, at s[c]: the colon and the value
AfterKey(s, acc, key, c) ==
    IF c > Len(s) \/ s[c] # ":" THEN ParseFail
    ELSE AfterMemberValue(s, acc, key,
                          Parse("value", s, SkipClass(s, c + 1, JsonWhitespace), <<>>))

\* JSONObject after scanning a key, k the result of the scan
AfterKeyScan(s, acc, k) ==
    IF ~k.ok THEN ParseFail
    ELSE AfterKey(s, acc, k.v.s, SkipClass(s, k.next, JsonWhitespace))

\* JSONObject after "{" and whitespace, at s[j]
ObjectStart(s, j) ==
    IF j > Len(s) THEN ParseFail
    ELSE IF s[j] = "}" THEN ParseOk(JObj(<<>>), j + 1)
    ELSE IF s[j] # "\"" THEN ParseFail
    ELSE Parse("members", s, j, <<>>)

\* JSONArray after an element and whitespace, at s[e]
AfterElement(s, acc, e) ==
    IF e > Len(s) THEN ParseFail
    ELSE IF s[e] = "]" THEN ParseOk(JArr(acc), e + 1)
    ELSE IF s[e] # "," THEN ParseFail
    ELSE Parse("elements", s, SkipClass(s, e + 1, JsonWhitespace), acc)

\* JSONArray after the element val
AfterElementValue(s, acc, val) ==
    IF ~val.ok THEN ParseFail
    ELSE AfterElement(s, Append(acc, val.v), SkipClass(s, val.next, JsonWhitespace))

\* JSONArray after "[" and whitespace, at s[j]
ArrayStart(s, j) ==
    IF j > Len(s) THEN ParseFail
    ELSE IF s[j] = "]" THEN ParseOk(JArr(<<>>), j + 1)
    ELSE Parse("elements", s, j, <<>>)

\* a number literal ending before s[n], n = 0 when there is none
NumberAt(s, i, n) ==
    IF n # 0 THEN ParseOk(JNum(SubSeq(s, i, n - 1)), n) ELSE ParseFail

Parse(part, s, i, acc) ==
    IF part = "members" THEN AfterKeyScan(s, acc, ScanString(s, i + 1, <<>>))
    ELSE IF part = "elements" THEN AfterElementValue(s, acc, Parse("value", s, i, <<>>))
    ELSE IF i > Len(s) THEN ParseFail
    ELSE IF s[i] = "\"" THEN ScanString(s, i + 1, <<>>)
    ELSE IF s[i] = "{" THEN ObjectStart(s, SkipClass(s, i + 1, JsonWhitespace))
    ELSE IF s[i] = "[" THEN ArrayStart(s, SkipClass(s, i + 1, JsonWhitespace))
    ELSE IF StartsWith(s, i, <<"n","u","l","l">>) THEN ParseOk(JNull, i + 4)
    ELSE IF StartsWith(s, i, <<"t","r","u","e">>) THEN ParseOk(JTrue, i + 4)
    ELSE IF StartsWith(s, i, <<"f","a","l","s","e">>) THEN ParseOk(JFalse, i + 5)
    ELSE NumberAt(s, i, NumberEnd(s, i))

\* the end of json.loads: nothing but whitespace may follow the value
LoadsEnd(s, r) ==
    IF ~r.ok THEN ParseFail
    ELSE IF SkipClass(s, r.next, JsonWhitespace) # Len(s) + 1 THEN ParseFail
    ELSE r

\* json.loads(s): ok = FALSE stands for JSONDecodeError
JsonLoads(s) == LoadsEnd(s, Parse("value", s, SkipClass(s, 1, JsonWhitespace), <<>>))

----------
(* json.dumps (default separators, ensure_ascii)                           *)

EscapeChar(c) ==
    CASE c = "\"" -> <<"\\", "\"">>
      [] c = "\\" -> <<"\\", "\\">>
      [] c = "\n" -> <<"\\", "n">>
      [] c = "\r" -> <<"\\", "r">>
      [] c = "\t" -> <<"\\", "t">>
      [] c = "\f" -> <<"\\", "f">>
      [] c = BackspaceChar -> <<"\\", "b">>
      [] c = OtherUnicodeChar -> <<"\\", "u", "0", "0", "e", "9">>
      [] OTHER -> <<c>>

RECURSIVE EscapeText(_)
EscapeText(s) ==
    IF s = <<>> THEN <<>> ELSE EscapeChar(Head(s)) \o EscapeText(Tail(s))

QuotedText(s) == <<"\"">> \o EscapeText(s) \o <<"\"">>

RECURSIVE JsonDumps(_)
RECURSIVE DumpItems(_, _)
\* the items of an array or the members of an object, joined by ", "
DumpItems(kids, i) ==
    IF i > Len(kids) THEN <<>>
    ELSE (IF i > 1 THEN <<",", " ">> ELSE <<>>) \o JsonDumps(kids[i]) \o DumpItems(kids, i + 1)

JsonDumps(v) ==
    CASE v.t = "null" -> <<"n","u","l","l">>
      [] v.t = "true" -> <<"t","r","u","e">>
      [] v.t = "false" -> <<"f","a","l","s","e">>
      [] v.t = "num" -> v.s
      [] v.t = "str" -> QuotedText(v.s)
      [] v.t = "pair" -> QuotedText(v.s) \o <<":", " ">> \o JsonDumps(v.kids[1])
      [] v.t = "arr" -> <<"[">> \o DumpItems(v.kids, 1) \o <<"]">>
      [] v.t = "obj" -> <<"{">> \o DumpItems(v.kids, 1) \o <<"}">>

----------------------------------------------------------------------------
(* ContentAnalyzer.clean_json_response                                     *)

\* the grave accent, which a string of the module cannot hold
Backtick == "<backtick>"
Fence == <<Backtick, Backtick, Backtick>>

\* the first block of blocks[i..] holding both braces, else the whole text
RECURSIVE FirstBracedBlock(_, _, _)
FirstBracedBlock(blocks, i, text) ==
    IF i > Len(blocks) THEN text
    ELSE IF Contains(blocks[i], <<"{">>) /\ Contains(blocks[i], <<"}">>) THEN blocks[i]
    ELSE FirstBracedBlock(blocks, i + 1, text)

\* text[start:end + 1], or None (found = FALSE)
extract_json_candidate(text0) ==
    LET text == IF Contains(text0, Fence)
                THEN FirstBracedBlock(Split(text0, Fence), 1, text0)
                ELSE text0
        start == FindFrom(text, <<"{">>, 1)
        end == RFindChar(text, "}", Len(text))
    IN  IF start >= 1 /\ end > start
        THEN [found |-> TRUE, text |-> SubSeq(text, start, end)]
        ELSE [found |-> FALSE, text |-> <<>>]

\* "".join(char for char in s if ord(char) >= 32 or char in "\n\r\t")
StripControl(s) == SelectSeq(s, LAMBDA c : c \notin ControlChars)

\* re.sub(r'\s+', ' ', s)
RECURSIVE CollapseWhitespace(_, _)
CollapseWhitespace(s, i) ==
    IF i > Len(s) THEN <<>>
    ELSE IF s[i] \in Whitespace
         THEN <<" ">> \o CollapseWhitespace(s, SkipClass(s, i, Whitespace))
    ELSE <<s[i]>> \o CollapseWhitespace(s, i + 1)

\* a match of ([{,])\s*([a-zA-Z_][a-zA-Z0-9_]*)\s*: starting at s[i]:
\* [a, b) is the identifier and c the index of the colon; c = 0 when no match
KeyMatch(s, i) ==
    LET a == SkipClass(s, i + 1, Whitespace)
        b == SkipClass(s, a + 1, IdentChar)
        c == SkipClass(s, b, Whitespace)
    IN  IF /\ s[i] \in {"{", ","}
           /\ a <= Len(s) /\ s[a] \in IdentStart
           /\ c <= Len(s) /\ s[c] = ":"
        THEN [a |-> a, b |-> b, c |-> c]
        ELSE [a |-> 0, b |-> 0, c |-> 0]

\* re.sub(r'([{,])\s*([a-zA-Z_][a-zA-Z0-9_]*)\s*:', r'\1"\2":', s)
RECURSIVE QuoteKeys(_, _)
QuoteKeys(s, i) ==
    IF i > Len(s) THEN <<>>
    ELSE LET m == KeyMatch(s, i) IN
         IF m.c # 0
         THEN <<s[i], "\"">> \o SubSeq(s, m.a, m.b - 1) \o <<"\"", ":">> \o QuoteKeys(s, m.c + 1)
         ELSE <<s[i]>> \o QuoteKeys(s, i + 1)

\* s.replace('None', 'null').replace('True', 'true').replace('False', 'false')
ReplaceLiterals(s) ==
    Replace(Replace(Replace(s, <<"N","o","n","e">>, <<"n","u","l","l">>),
                    <<"T","r","u","e">>, <<"t","r","u","e">>),
            <<"F","a","l","s","e">>, <<"f","a","l","s","e">>)

\* re.sub(r',\s*([}\]])', r'\1', s)
RECURSIVE DropTrailingCommas(_, _)
DropTrailingCommas(s, i) ==
    IF i > Len(s) THEN <<>>
    ELSE LET j == SkipClass(s, i + 1, Whitespace) IN
         IF s[i] = "," /\ j <= Len(s) /\ s[j] \in {"}", "]"}
         THEN <<s[j]>> \o DropTrailingCommas(s, j + 1)
         ELSE <<s[i]>> \o DropTrailingCommas(s, i + 1)

\* re.sub(r'(?<!\\)\\n', ' ', s)
RECURSIVE ReplaceEscapedNewlines(_, _)
ReplaceEscapedNewlines(s, i) ==
    IF i > Len(s) THEN <<>>
    ELSE IF /\ s[i] = "\\"
            /\ i + 1 <= Len(s) /\ s[i + 1] = "n"
            /\ ~(i > 1 /\ s[i - 1] = "\\")
         THEN <<" ">> \o ReplaceEscapedNewlines(s, i + 2)
    ELSE <<s[i]>> \o ReplaceEscapedNewlines(s, i + 1)

\* re.sub(r'[\n\r]+', ' ', s)
RECURSIVE ReplaceNewlines(_, _)
ReplaceNewlines(s, i) ==
    IF i > Len(s) THEN <<>>
    ELSE IF s[i] \in {"\n", "\r"}
         THEN <<" ">> \o ReplaceNewlines(s, SkipClass(s, i, {"\n", "\r"}))
    ELSE <<s[i]>> \o ReplaceNewlines(s, i + 1)

\* re.sub(close \s* open, rep, s), the four "missing comma" substitutions
RECURSIVE InsertSeparator(_, _, _, _, _)
InsertSeparator(s, i, close, open, rep) ==
    IF i > Len(s) THEN <<>>
    ELSE LET j == SkipClass(s, i + 1, Whitespace) IN
         IF s[i] = close /\ j <= Len(s) /\ s[j] = open
         THEN rep \o InsertSeparator(s, j + 1, close, open, rep)
         ELSE <<s[i]>> \o InsertSeparator(s, i + 1, close, open, rep)

\* the replacement templates '},\[' and '],\[' keep their backslash
InsertSeparators(s) ==
    LET s1 == InsertSeparator(s, 1, "}", "{", <<"}", ",", "{">>)
        s2 == InsertSeparator(s1, 1, "]", "{", <<"]", ",", "{">>)
        s3 == InsertSeparator(s2, 1, "}", "[", <<"}", ",", "\\", "[">>)
    IN  InsertSeparator(s3, 1, "]", "[", <<"]", ",", "\\", "[">>)

\* the lookahead ["\\/bfnrt]|u[0-9a-fA-F]{4} at s[i]
ValidEscapeAt(s, i) ==
    /\ i <= Len(s)
    /\ \/ s[i] \in SimpleEscapes
       \/ /\ s[i] = "u"
          /\ i + 4 <= Len(s)
          /\ \A k \in 1..4 : s[i + k] \in HexDigits

\* re.sub(r'\\(?!["\\/bfnrt]|u[0-9a-fA-F]{4})', '', s)
RECURSIVE DropInvalidEscapes(_, _)
DropInvalidEscapes(s, i) ==
    IF i > Len(s) THEN <<>>
    ELSE IF s[i] = "\\" /\ ~ValidEscapeAt(s, i + 1) THEN DropInvalidEscapes(s, i + 1)
    ELSE <<s[i]>> \o DropInvalidEscapes(s, i + 1)

clean_json_string(s) ==
    LET s1 == CollapseWhitespace(StripControl(s), 1)
        s2 == QuoteKeys(s1, 1)
        s3 == Replace(s2, <<"'">>, <<"\"">>)
        s4 == ReplaceLiterals(s3)
        s5 == DropTrailingCommas(s4, 1)
        s6 == ReplaceNewlines(ReplaceEscapedNewlines(s5, 1), 1)
        s7 == InsertSeparators(s6)
    IN  Strip(DropInvalidEscapes(s7, 1))

\* What a call of the parser produced: a record (absent = FALSE), None
\* (absent = TRUE), or an exception leaving the function (raised = TRUE)
Absent == [raised |-> FALSE, absent |-> TRUE, value |-> JNull]
Returned(v) == [raised |-> FALSE, absent |-> FALSE, value |-> v]
Raised == [raised |-> TRUE, absent |-> TRUE, value |-> JNull]

\* a response is None, a string (text) or some other, non-empty object
NoneResponse == [kind |-> "none", text |-> <<>>]
TextResponse(text) == [kind |-> "str", text |-> text]
OtherResponse == [kind |-> "other", text |-> <<>>]

\* not response
Falsy(resp) == resp.kind = "none" \/ (resp.kind = "str" /\ resp.text = <<>>)

\* ValidateParsed without the test "if len(result) > 0"
ValidateParsedKeepingEmpty(r) ==
    IF ~r.ok THEN Absent
    ELSE IF ~IsDict(r.v) THEN Absent
    ELSE Returned(r.v)

\* the inner try after json.loads: r.ok = FALSE is the JSONDecodeError caught
\* there; a result that is no dict or is empty is refused
ValidateParsed(r) ==
    IF ~r.ok THEN Absent
    ELSE IF ~IsDict(r.v) THEN Absent
    ELSE IF DictLen(r.v) > 0 THEN Returned(r.v)
    ELSE Absent

\* ParseCandidate answering with a record of its own when there is no candidate
ParseCandidateWithFallback(cand) ==
    IF ~cand.found THEN Returned(JObj(<<JPair(<<"r","a","w">>, JStr(cand.text))>>))
    ELSE ValidateParsed(JsonLoads(clean_json_string(cand.text)))

\* the cleaned candidate is parsed
ParseCandidate(cand) ==
    IF ~cand.found THEN Absent
    ELSE ValidateParsed(JsonLoads(clean_json_string(cand.text)))

\* the body of the outer try; the membership test '```' in text raises
\* TypeError for a response that is not a string
CleanBody(resp) ==
    IF resp.kind # "str" THEN Raised
    ELSE ParseCandidate(extract_json_candidate(resp.text))

\* CatchAll with the outer except clause missing
CatchAllMissing(r) == r

\* except Exception: return None
CatchAll(r) == IF r.raised THEN Absent ELSE r

clean_json_response(resp) ==
    IF Falsy(resp) THEN Absent
    ELSE CatchAll(CleanBody(resp))

----------------------------------------------------------------------------
(* The texts the parser is run on                                          *)

Quoted(raw) == <<"\"">> \o raw \o <<"\"">>
Member(k, v) == Quoted(k) \o <<":">> \o v
Obj1(v) == <<"{">> \o Member(<<"a">>, v) \o <<"}">>
Obj2(v) == <<"{">> \o Member(<<"a">>, v) \o <<",", " ">> \o Member(<<"b">>, <<"1">>) \o <<"}">>
ObjNested(v) == <<"{">> \o Member(<<"k">>, Obj1(v)) \o <<"}">>

\* the contents of string literals of strictly valid JSON
StringContents == {
    <<"x">>,                                                  \* plain
    <<"i","t","'","s">>,                                      \* an apostrophe
    <<"x"," "," ","y">>,                                      \* two spaces
    <<"N","o","n","e">>,                                      \* the token None
    <<"T","r","u","e">>,                                      \* the token True
    <<"a",","," ","b",":"," ","c">>,                          \* a comma, a word and a colon
    <<"}","{">>,                                              \* adjacent braces
    <<",","]">>,                                              \* a comma before a bracket
    <<"\\","u","0","0","2","7">>,                             \* an escaped apostrophe
    <<"x"," ","\\","n"," ","y">>,                             \* an escaped newline between spaces
    <<"\\","u","0","0","4","e","o","n","e">>,                 \* None behind an escape
    <<"\\","u","0","0","2","c","b",":">>,                     \* an escaped comma, a word and a colon
    <<"\\","\\","q">>,                                        \* an escaped backslash
    <<"\\","\"">>                                             \* an escaped quote
}

\* values of strictly valid JSON
ValidValues ==
    {Quoted(c) : c \in StringContents}
    \cup {<<"1">>, <<"t","r","u","e">>, <<"n","u","l","l">>, <<"[","1",","," ","2","]">>}

ValidBodies == {Obj1(v) : v \in ValidValues} \cup {Obj2(v) : v \in ValidValues}
               \cup {ObjNested(v) : v \in ValidValues}

\* object texts that are not strictly valid JSON objects with a member
OtherBodies == {
    <<"{","n","a","m","e",":"," ","'","a","'",","," ","o","k",":"," ","T","r","u","e","}">>, \* bare keys, single quotes, a Python literal
    <<"{","\"","a","\"",":","1",",","}">>,                    \* a trailing comma
    <<"{","\"","a","\"",":","[","[","1","]","[","2","]","]","}">>, \* arrays with no comma between them
    <<"{","\"","k","\"",":","[","{","\"","a","\"",":","1","}","{","\"","b","\"",":","2","}","]","}">>, \* objects with no comma between them
    <<"{","'","a","'",":"," ","N","o","n","e","}">>,          \* single quotes and None
    <<"{","\"","a","\"",":","\"","N","\\","o","n","e","\"","}">>, \* an invalid escape inside None
    <<"{","\"","a","\"",":","\"",",","\\","q","b",":","\"","}">>, \* an invalid escape after a comma
    <<"{","\"","a","\"",":","\"","x","\f","y","\"","}">>,     \* a control character
    <<"{","\"","a","\"",":","\n","1","}">>,                   \* a newline between tokens
    <<"{","}">>,                                              \* the empty object
    <<"{","\"","a","\"",":","}">>,                            \* a member with no value
    <<"{","a","}">>,                                          \* no member
    <<"{","\"","a","\"",":","1","}","{","\"","b","\"",":","2","}">>, \* two objects
    <<"{","\"","a","\"",":","1","}","}">>,                    \* a brace too many
    <<"{","\"","a","\"",":","1",",","\"","a","\"",":","2","}">> \* a key given twice
}

\* texts with no "{" followed later by a "}"
UnstructuredBodies == {
    <<"h","e","l","l","o">>,                                  \* prose
    <<"}","x","{">>,                                          \* braces in the wrong order
    <<"{">>,                                                  \* an opening brace alone
    <<"[","1",",","2","]">>,                                  \* an array
    <<>>                                                      \* nothing
}

Bodies == ValidBodies \cup OtherBodies \cup UnstructuredBodies

Wraps == {"alone", "prose", "fence", "prose_fence", "braced_prose_fence"}

ProseBefore == <<"H","e","r","e",":"," ">>
ProseAfter == <<" ","o","k",".">>
FenceOpen == Fence \o <<"j","s","o","n","\n">>
FenceClose == <<"\n">> \o Fence
BracedProse == <<"S","e","e"," ","{","x","}",":"," ">>

\* the response text built around an object text
Wrap(w, body) ==
    CASE w = "alone" -> body
      [] w = "prose" -> ProseBefore \o body \o ProseAfter
      [] w = "fence" -> FenceOpen \o body \o FenceClose
      [] w = "prose_fence" -> ProseBefore \o FenceOpen \o body \o FenceClose \o ProseAfter
      [] w = "braced_prose_fence" -> BracedProse \o FenceOpen \o body \o FenceClose

----------------------------------------------------------------------------
(* ContentAnalyzer._safe_api_call                                          *)

MaxRetries == 3
MaxInitialDelay == 2

\* last_error = None
NoError == <<"<None>">>
\* str(e) of the exceptions the attempt body raises itself
EmptyResponseError == <<"E","m","p","t","y"," ","r","e","s","p","o","n","s","e"," ","f","r","o","m"," ","A","P","I">>
ParseFailedError == <<"F","a","i","l","e","d"," ","t","o"," ","e","x","t","r","a","c","t"," ","v","a","l","i","d"," ","J","S","O","N"," ","s","t","r","u","c","t","u","r","e">>
\* str(e) of the exceptions gemini_model.predict raises
ApiErrors == {<<"q","u","o","t","a">>, <<"t","i","m","e","o","u","t">>}

\* the fallback record returned when every attempt failed
Sentinel(last_error) ==
    JObj(<<
        JPair(<<"s","u","b","j","e","c","t">>, JStr(<<"A","n","a","l","y","s","i","s"," ","E","r","r","o","r">>)),
        JPair(<<"s","u","b","t","o","p","i","c">>, JStr(<<"A","P","I"," ","P","r","o","c","e","s","s","i","n","g"," ","F","a","i","l","e","d">>)),
        JPair(<<"d","i","f","f","i","c","u","l","t","y","_","l","e","v","e","l">>, JStr(<<"U","n","a","v","a","i","l","a","b","l","e">>)),
        JPair(<<"t","a","r","g","e","t","_","a","u","d","i","e","n","c","e">>, JStr(<<"N","o","t"," ","a","v","a","i","l","a","b","l","e">>)),
        JPair(<<"p","r","e","r","e","q","u","i","s","i","t","e","s">>, JArr(<<>>)),
        JPair(<<"c","o","n","c","e","p","t","s">>,
              JArr(<<JStr(<<"E","r","r","o","r",":"," ">> \o last_error),
                     JStr(<<"P","l","e","a","s","e"," ","t","r","y"," ","a","g","a","i","n"," ","l","a","t","e","r">>)>>)),
        JPair(<<"s","u","m","m","a","r","y">>, JStr(<<"A","n","a","l","y","s","i","s"," ","f","a","i","l","e","d",":"," ">> \o last_error)),
        JPair(<<"k","e","y","_","p","o","i","n","t","s">>, JArr(<<JStr(<<"U","n","a","b","l","e"," ","t","o"," ","p","r","o","c","e","s","s"," ","c","o","n","t","e","n","t">>)>>)),
        JPair(<<"c","h","a","p","t","e","r","_","b","r","e","a","k","d","o","w","n">>, JArr(<<>>)),
        JPair(<<"l","e","a","r","n","i","n","g","_","o","u","t","c","o","m","e","s">>, JArr(<<>>))
    >>)

\* how a call of _safe_api_call ends: it returns a value, or an exception
\* leaves it; None is the value of a call whose loop ran out
NotEnded == [kind |-> "running", value |-> JNull]
ReturnedRecord(v) == [kind |-> "return", value |-> v]
ReturnedNone == [kind |-> "return", value |-> JNull]
Escaped == [kind |-> "raise", value |-> JNull]

\* what gemini_model.predict may return
ApiTexts == {
    Obj1(Quoted(<<"x">>)),
    Wrap("fence", <<"{","n","a","m","e",":"," ","'","a","'",","," ","o","k",":"," ","T","r","u","e","}">>),
    Obj1(Quoted(<<"i","t","'","s">>)),
    <<"h","e","l","l","o">>
}
ApiResponses == {NoneResponse, TextResponse(<<>>), OtherResponse} \cup {TextResponse(t) : t \in ApiTexts}

SleepEvent(d) == [ev |-> "sleep", d |-> d, raised |-> FALSE, resp |-> NoneResponse, err |-> <<>>]
CallReturned(r) == [ev |-> "call", d |-> 0, raised |-> FALSE, resp |-> r, err |-> <<>>]
CallRaised(e) == [ev |-> "call", d |-> 0, raised |-> TRUE, resp |-> NoneResponse, err |-> e]

RetryInit ==
    \* no call of ChannelAnalyzer, analyze_video_content or main
    /\ chResponse = NoneResponse
    /\ chTitle = <<>>
    /\ chVideoCount = 0
    /\ chResult = [raised |-> FALSE, value |-> JNull]
    /\ chPc = "idle"
    /\ subAnalyses = <<>>
    /\ failedComponents = 0
    /\ contentResult = [raised |-> FALSE, value |-> JNull]
    /\ contentPc = "idle"
    /\ videosData = <<>>
    /\ allSentiments = <<>>
    /\ videoScores = <<>>
    /\ bestVideo = [raised |-> FALSE, value |-> JNull]
    /\ recPc = "idle"
    /\ urlInputs = <<>>
    /\ newUrls = <<>>
    /\ urlIndex = 0
    /\ urlPc = "idle"
    /\ maxRetries \in 0..MaxRetries
    /\ initialDelay \in 1..MaxInitialDelay
    /\ attempt = 0
    /\ delay = initialDelay
    /\ lastError = NoError
    /\ response = NoneResponse
    /\ rcPc = "for"
    /\ outcome = NotEnded
    /\ trace = <<>>
    /\ parserRuns = <<>>
    \* no run of the parser
    /\ pInput = NoneResponse
    /\ pBody = <<>>
    /\ pWrap = "alone"
    /\ pStage = "idle"
    /\ pFirst = Absent
    /\ pSecond = Absent
    \* no call of display_sentiment_analysis
    /\ comments = <<>>
    /\ topComments = <<>>
    /\ batchStart = 0
    /\ allAnalyses = <<>>
    /\ sentiments = [positive |-> 0, negative |-> 0]
    /\ batchLog = <<>>
    /\ sPc = "idle"
    \* no call of SearchAnalyzer
    /\ query = <<>>
    /\ modelLoaded = FALSE
    /\ videos = <<>>
    /\ ranked = [raised |-> FALSE, value |-> <<>>]
    /\ transcript = [kind |-> "none", text |-> <<>>]
    /\ segments = <<>>
    /\ relevant = [raised |-> FALSE, value |-> <<>>]
    /\ timestamp = [kind |-> "int", text |-> <<>>]
    /\ seconds = [raised |-> FALSE, value |-> 0]
    /\ searchPc = "idle"

\* for attempt in range(max_retries): the loop runs out
LoopExhausted ==
    /\ rcPc = "for"
    /\ attempt >= maxRetries
    /\ outcome' = ReturnedNone
    /\ rcPc' = "done"
    /\ UNCHANGED <<maxRetries, initialDelay, attempt, delay, lastError, response,
                   trace, parserRuns>>
    /\ UNCHANGED <<parserVars, sentimentVars, searchVars, mainVars>>

\* BeginAttempt doubling the delay before sleeping
BeginAttemptDoublingFirst ==
    /\ rcPc = "for"
    /\ attempt < maxRetries
    /\ IF attempt > 0
       THEN /\ trace' = Append(trace, SleepEvent(delay * 2))
            /\ delay' = delay * 2
       ELSE UNCHANGED <<trace, delay>>
    /\ rcPc' = "predict"
    /\ UNCHANGED <<maxRetries, initialDelay, attempt, lastError, response,
                   outcome, parserRuns>>
    /\ UNCHANGED <<parserVars, sentimentVars, searchVars, mainVars>>

\* the head of the attempt body: the sleep and the doubling on a retry
BeginAttempt ==
    /\ rcPc = "for"
    /\ attempt < maxRetries
    /\ IF attempt > 0
       THEN /\ trace' = Append(trace, SleepEvent(delay))
            /\ delay' = delay * 2
       ELSE UNCHANGED <<trace, delay>>
    /\ rcPc' = "predict"
    /\ UNCHANGED <<maxRetries, initialDelay, attempt, lastError, response,
                   outcome, parserRuns>>
    /\ UNCHANGED <<parserVars, sentimentVars, searchVars, mainVars>>

\* HandleFailure comparing attempt with max_retries instead of max_retries - 1
HandleFailureOffByOne(e) ==
    /\ lastError' = e
    /\ IF attempt = maxRetries
       THEN /\ outcome' = ReturnedRecord(Sentinel(e))
            /\ rcPc' = "done"
            /\ UNCHANGED attempt
       ELSE /\ attempt' = attempt + 1
            /\ rcPc' = "for"
            /\ UNCHANGED outcome

\* HandleFailure building the sentinel from last_error before it is assigned
HandleFailureStaleError(e) ==
    /\ lastError' = e
    /\ IF attempt = maxRetries - 1
       THEN /\ outcome' = ReturnedRecord(Sentinel(lastError))
            /\ rcPc' = "done"
            /\ UNCHANGED attempt
       ELSE /\ attempt' = attempt + 1
            /\ rcPc' = "for"
            /\ UNCHANGED outcome

\* except Exception as e: the sentinel on the last attempt, else the next attempt
HandleFailure(e) ==
    /\ lastError' = e
    /\ IF attempt = maxRetries - 1
       THEN /\ outcome' = ReturnedRecord(Sentinel(e))
            /\ rcPc' = "done"
            /\ UNCHANGED attempt
       ELSE /\ attempt' = attempt + 1
            /\ rcPc' = "for"
            /\ UNCHANGED outcome

\* response = self.api_client.gemini_model.predict(prompt) raises
PredictRaises ==
    /\ rcPc = "predict"
    /\ \E e \in ApiErrors :
          /\ trace' = Append(trace, CallRaised(e))
          /\ HandleFailure(e)
    /\ UNCHANGED <<maxRetries, initialDelay, delay, response, parserRuns>>
    /\ UNCHANGED <<parserVars, sentimentVars, searchVars, mainVars>>

\* response = self.api_client.gemini_model.predict(prompt) returns
PredictReturns ==
    /\ rcPc = "predict"
    /\ \E r \in ApiResponses :
          /\ trace' = Append(trace, CallReturned(r))
          /\ response' = r
    /\ rcPc' = "response"
    /\ UNCHANGED <<maxRetries, initialDelay, attempt, delay, lastError, outcome,
                   parserRuns>>
    /\ UNCHANGED <<parserVars, sentimentVars, searchVars, mainVars>>

\* if result: the record of clean_json_response is not None and not empty
Truthy(r) == ~r.absent /\ DictLen(r.value) > 0

\* HandleResponse with the empty check missing: the parser runs on every response
HandleResponseUnchecked ==
    /\ rcPc = "response"
    /\ parserRuns' = Append(parserRuns, response)
    /\ LET result == clean_json_response(response) IN
       IF Truthy(result)
       THEN /\ outcome' = ReturnedRecord(result.value)
            /\ rcPc' = "done"
            /\ UNCHANGED <<attempt, lastError>>
       ELSE HandleFailure(ParseFailedError)
    /\ UNCHANGED <<maxRetries, initialDelay, delay, response, trace>>
    /\ UNCHANGED <<parserVars, sentimentVars, searchVars, mainVars>>

\* the rest of the attempt body: the empty check, the parse, the return
HandleResponse ==
    /\ rcPc = "response"
    /\ IF Falsy(response)
       THEN /\ HandleFailure(EmptyResponseError)
            /\ UNCHANGED parserRuns
       ELSE /\ parserRuns' = Append(parserRuns, response)
            /\ LET result == clean_json_response(response) IN
               IF Truthy(result)
               THEN /\ outcome' = ReturnedRecord(result.value)
                    /\ rcPc' = "done"
                    /\ UNCHANGED <<attempt, lastError>>
               ELSE HandleFailure(ParseFailedError)
    /\ UNCHANGED <<maxRetries, initialDelay, delay, response, trace>>
    /\ UNCHANGED <<parserVars, sentimentVars, searchVars, mainVars>>

----------------------------------------------------------------------------
(* ContentAnalyzer.analyze_comment_batch and display_sentiment_analysis    *)

BATCH_SIZE == 20
TopCommentCount == 100
MaxComments == 45
MaxExtra == 5

Positive == JStr(<<"p","o","s","i","t","i","v","e">>)
Negative == JStr(<<"n","e","g","a","t","i","v","e">>)
ResultsKey == <<"r","e","s","u","l","t","s">>
SentimentKey == <<"s","e","n","t","i","m","e","n","t">>
ConfidenceKey == <<"c","o","n","f","i","d","e","n","c","e">>
KeyPhrasesKey == <<"k","e","y","_","p","h","r","a","s","e","s">>

\* dict.get(key, default)
GetOr(v, k, default) == IF k \in DictKeys(v) THEN DictGet(v, k) ELSE default

\* one model result: its labels, the sentiment left out when label is <<>>
ModelResult(label) ==
    JObj((IF label = <<>> THEN <<>> ELSE <<JPair(SentimentKey, JStr(label))>>)
         \o <<JPair(ConfidenceKey, JStr(<<"h","i","g","h">>))>>)

\* the labels the model answers with, by position
Labelings == {"positive", "negative", "mixed"}
LabelAt(labeling, j) ==
    CASE labeling = "positive" -> Positive.s
      [] labeling = "negative" -> Negative.s
      [] OTHER ->
           CASE j % 5 = 1 -> <<"n","e","u","t","r","a","l">>
             [] j % 5 = 2 -> Positive.s
             [] j % 5 = 3 -> <<"P","o","s","i","t","i","v","e">>
             [] j % 5 = 4 -> <<>>
             [] OTHER -> Negative.s

ResultList(labeling, k) == JArr([j \in 1..k |-> ModelResult(LabelAt(labeling, j))])

\* what _safe_api_call may hand back for a batch of m comments
BatchAnalyses(m) ==
    {Sentinel(ParseFailedError),
     JObj(<<JPair(<<"s","u","m","m","a","r","y">>, JStr(<<"x">>))>>),
     JObj(<<JPair(ResultsKey, JStr(<<"x">>))>>),
     JObj(<<JPair(ResultsKey, JArr(<<JStr(<<"x">>), ModelResult(Positive.s)>>))>>)}
    \cup {JObj(<<JPair(ResultsKey, ResultList(l, k))>>) :
            l \in Labelings, k \in ({0, m - 1, m, m + 1} \cap Nat)}

\* the answers drawn for a call with n comments: all of them for at most
\* MaxComments comments, two of them for more
AnalysesFor(n, m) ==
    IF n <= MaxComments THEN BatchAnalyses(m)
    ELSE {Sentinel(ParseFailedError), JObj(<<JPair(ResultsKey, ResultList("mixed", m))>>)}

Comment(text, likes) == [text |-> text, likes |-> likes]
Verdict(comment, result) ==
    [text |-> comment.text,
     sentiment |-> GetOr(result, SentimentKey, Negative),
     confidence |-> GetOr(result, ConfidenceKey, JStr(<<"l","o","w">>)),
     key_phrases |-> GetOr(result, KeyPhrasesKey, JArr(<<>>)),
     likes |-> comment.likes]

Min(a, b) == IF a < b THEN a ELSE b

\* analyze_comment_batch refusing results that are not one for each comment
analyze_comment_batch_strict(batch, analysis) ==
    IF ~IsDict(analysis) \/ DictLen(analysis) = 0 \/ ResultsKey \notin DictKeys(analysis)
    THEN <<>>
    ELSE LET results == DictGet(analysis, ResultsKey) IN
         IF results.t # "arr" THEN <<>>
         ELSE IF Len(results.kids) # Len(batch) THEN <<>>
         ELSE IF \E j \in 1..Len(batch) : ~IsDict(results.kids[j]) THEN <<>>
         ELSE [j \in 1..Len(batch) |-> Verdict(batch[j], results.kids[j])]

\* analyze_comment_batch, given what _safe_api_call returned: zip stops at
\* the shorter sequence; iterating results that are no list of records
\* raises, and the except clause returns the empty list
analyze_comment_batch(batch, analysis) ==
    IF ~IsDict(analysis) \/ DictLen(analysis) = 0 \/ ResultsKey \notin DictKeys(analysis)
    THEN <<>>
    ELSE LET results == DictGet(analysis, ResultsKey)
             n == Min(Len(batch), Len(results.kids))
         IN  IF results.t # "arr" THEN <<>>
             ELSE IF \E j \in 1..n : ~IsDict(results.kids[j]) THEN <<>>
             ELSE [j \in 1..n |-> Verdict(batch[j], results.kids[j])]

\* sorted(seq, key=lambda x: x['likes'], reverse=True) is stable: seq[i]
\* comes after the comments with more likes and after the earlier comments
\* with as many likes
PlaceByLikes(seq, i) ==
    1 + Cardinality({j \in 1..Len(seq) :
                        \/ seq[j].likes > seq[i].likes
                        \/ seq[j].likes = seq[i].likes /\ j < i})

SortByLikes(seq) ==
    [k \in 1..Len(seq) |-> seq[CHOOSE i \in 1..Len(seq) : PlaceByLikes(seq, i) = k]]

\* TopComments with the sort missing
FirstComments(seq) == SubSeq(seq, 1, Min(Len(seq), TopCommentCount))

\* sorted(...)[:100]
TopComments(seq) == SubSeq(SortByLikes(seq), 1, Min(Len(seq), TopCommentCount))

\* Tally comparing the label with 'negative' only
RECURSIVE TallyPositiveByDefault(_, _, _)
TallyPositiveByDefault(counts, analyses, i) ==
    IF i > Len(analyses) THEN counts
    ELSE TallyPositiveByDefault(IF analyses[i].sentiment = Negative
                                THEN [counts EXCEPT !.negative = @ + 1]
                                ELSE [counts EXCEPT !.positive = @ + 1], analyses, i + 1)

\* the tallies after counting the analyses of one batch
RECURSIVE Tally(_, _, _)
Tally(counts, analyses, i) ==
    IF i > Len(analyses) THEN counts
    ELSE LET sent == IF analyses[i].sentiment \in {Positive, Negative}
                     THEN analyses[i].sentiment ELSE Negative
         IN  Tally(IF sent = Positive
                   THEN [counts EXCEPT !.positive = @ + 1]
                   ELSE [counts EXCEPT !.negative = @ + 1], analyses, i + 1)

LikesPatterns == {"equal", "ascending", "cyclic"}
LikesOf(pattern, i) ==
    CASE pattern = "equal" -> 0
      [] pattern = "ascending" -> i
      [] OTHER -> i % 3

CommentCounts ==
    {0, 1, BATCH_SIZE, BATCH_SIZE + 1, MaxComments,
     TopCommentCount - 1, TopCommentCount, TopCommentCount + 1, TopCommentCount + MaxExtra}

SentimentInit ==
    \* no call of ChannelAnalyzer, analyze_video_content or main
    /\ chResponse = NoneResponse
    /\ chTitle = <<>>
    /\ chVideoCount = 0
    /\ chResult = [raised |-> FALSE, value |-> JNull]
    /\ chPc = "idle"
    /\ subAnalyses = <<>>
    /\ failedComponents = 0
    /\ contentResult = [raised |-> FALSE, value |-> JNull]
    /\ contentPc = "idle"
    /\ videosData = <<>>
    /\ allSentiments = <<>>
    /\ videoScores = <<>>
    /\ bestVideo = [raised |-> FALSE, value |-> JNull]
    /\ recPc = "idle"
    /\ urlInputs = <<>>
    /\ newUrls = <<>>
    /\ urlIndex = 0
    /\ urlPc = "idle"
    /\ \E n \in CommentCounts, p \in LikesPatterns :
          comments = [i \in 1..n |-> Comment(i, LikesOf(p, i))]
    /\ topComments = <<>>
    /\ batchStart = 0
    /\ allAnalyses = <<>>
    /\ sentiments = [positive |-> 0, negative |-> 0]
    /\ batchLog = <<>>
    /\ sPc = "start"
    \* no run of the parser
    /\ pInput = NoneResponse
    /\ pBody = <<>>
    /\ pWrap = "alone"
    /\ pStage = "idle"
    /\ pFirst = Absent
    /\ pSecond = Absent
    \* no call of _safe_api_call
    /\ maxRetries = 0
    /\ initialDelay = 0
    /\ attempt = 0
    /\ delay = 0
    /\ lastError = NoError
    /\ response = NoneResponse
    /\ rcPc = "idle"
    /\ outcome = NotEnded
    /\ trace = <<>>
    /\ parserRuns = <<>>
    \* no call of SearchAnalyzer
    /\ query = <<>>
    /\ modelLoaded = FALSE
    /\ videos = <<>>
    /\ ranked = [raised |-> FALSE, value |-> <<>>]
    /\ transcript = [kind |-> "none", text |-> <<>>]
    /\ segments = <<>>
    /\ relevant = [raised |-> FALSE, value |-> <<>>]
    /\ timestamp = [kind |-> "int", text |-> <<>>]
    /\ seconds = [raised |-> FALSE, value |-> 0]
    /\ searchPc = "idle"

\* no comments: return {'positive': 0, 'negative': 0}
NoComments ==
    /\ sPc = "start"
    /\ comments = <<>>
    /\ sPc' = "done"
    /\ UNCHANGED <<comments, topComments, batchStart, allAnalyses, sentiments, batchLog>>
    /\ UNCHANGED <<parserVars, retryVars, searchVars, mainVars>>

\* top_comments, all_analyses and sentiments before the loop
SelectTop ==
    /\ sPc = "start"
    /\ comments # <<>>
    /\ topComments' = TopComments(comments)
    /\ sPc' = "loop"
    /\ UNCHANGED <<comments, batchStart, allAnalyses, sentiments, batchLog>>
    /\ UNCHANGED <<parserVars, retryVars, searchVars, mainVars>>

\* one call of analyze_comment_batch: the batch it was given, what its one
\* call of _safe_api_call returned, and the verdicts it returned
BatchCall(batch, analysis, verdicts) ==
    [batch |-> batch, analysis |-> analysis, verdicts |-> verdicts]

\* AnalyzeBatch stepping by one less than the batch size
AnalyzeBatchOverlapping ==
    /\ sPc = "loop"
    /\ batchStart < Len(topComments)
    /\ LET batch == SubSeq(topComments, batchStart + 1,
                           Min(batchStart + BATCH_SIZE, Len(topComments)))
       IN  \E analysis \in AnalysesFor(Len(comments), Len(batch)) :
              LET batch_analyses == analyze_comment_batch(batch, analysis) IN
              /\ allAnalyses' = allAnalyses \o batch_analyses
              /\ sentiments' = Tally(sentiments, batch_analyses, 1)
              /\ batchLog' = Append(batchLog, BatchCall(batch, analysis, batch_analyses))
    /\ batchStart' = batchStart + BATCH_SIZE - 1
    /\ UNCHANGED <<comments, topComments, sPc>>
    /\ UNCHANGED <<parserVars, retryVars, searchVars, mainVars>>

\* AnalyzeBatch leaving the loop after a batch that gave no verdicts
AnalyzeBatchStopping ==
    /\ sPc = "loop"
    /\ batchStart < Len(topComments)
    /\ LET batch == SubSeq(topComments, batchStart + 1,
                           Min(batchStart + BATCH_SIZE, Len(topComments)))
       IN  \E analysis \in AnalysesFor(Len(comments), Len(batch)) :
              LET batch_analyses == analyze_comment_batch(batch, analysis) IN
              /\ allAnalyses' = allAnalyses \o batch_analyses
              /\ sentiments' = Tally(sentiments, batch_analyses, 1)
              /\ batchLog' = Append(batchLog, BatchCall(batch, analysis, batch_analyses))
              /\ batchStart' = IF batch_analyses = <<>> THEN Len(topComments)
                               ELSE batchStart + BATCH_SIZE
    /\ UNCHANGED <<comments, topComments, sPc>>
    /\ UNCHANGED <<parserVars, retryVars, searchVars, mainVars>>

\* one iteration of for i in range(0, len(top_comments), BATCH_SIZE)
AnalyzeBatch ==
    /\ sPc = "loop"
    /\ batchStart < Len(topComments)
    /\ LET batch == SubSeq(topComments, batchStart + 1,
                           Min(batchStart + BATCH_SIZE, Len(topComments)))
       IN  \E analysis \in AnalysesFor(Len(comments), Len(batch)) :
              LET batch_analyses == analyze_comment_batch(batch, analysis) IN
              /\ allAnalyses' = allAnalyses \o batch_analyses
              /\ sentiments' = Tally(sentiments, batch_analyses, 1)
              /\ batchLog' = Append(batchLog, BatchCall(batch, analysis, batch_analyses))
    /\ batchStart' = batchStart + BATCH_SIZE
    /\ UNCHANGED <<comments, topComments, sPc>>
    /\ UNCHANGED <<parserVars, retryVars, searchVars, mainVars>>

\* the loop ends: return sentiments
FinishAnalysis ==
    /\ sPc = "loop"
    /\ batchStart >= Len(topComments)
    /\ sPc' = "done"
    /\ UNCHANGED <<comments, topComments, batchStart, allAnalyses, sentiments, batchLog>>
    /\ UNCHANGED <<parserVars, retryVars, searchVars, mainVars>>

----------------------------------------------------------------------------
(* SearchAnalyzer._timestamp_to_seconds                                    *)

\* current_timestamp = 0 before any bracketed line, the text of a label after
IntTimestamp == [kind |-> "int", text |-> <<>>]
Label(text) == [kind |-> "str", text |-> text]

\* how a call ends: with a value, or with an exception leaving it
Gives(v) == [raised |-> FALSE, value |-> v]
Throws == [raised |-> TRUE, value |-> 0]

DigitValue(c) ==
    CASE c = "0" -> 0 [] c = "1" -> 1 [] c = "2" -> 2 [] c = "3" -> 3 [] c = "4" -> 4
      [] c = "5" -> 5 [] c = "6" -> 6 [] c = "7" -> 7 [] c = "8" -> 8 [] c = "9" -> 9

\* the value of a text of digits and underscores, read from the left
RECURSIVE DigitsValue(_, _, _)
DigitsValue(s, i, acc) ==
    IF i > Len(s) THEN acc
    ELSE IF s[i] = "_" THEN DigitsValue(s, i + 1, acc)
    ELSE DigitsValue(s, i + 1, 10 * acc + DigitValue(s[i]))

\* the digits of an int literal: digits with single underscores between them
DigitGroups(s) ==
    /\ s # <<>>
    /\ \A i \in 1..Len(s) : s[i] \in Digits \cup {"_"}
    /\ s[1] # "_" /\ s[Len(s)] # "_"
    /\ \A i \in 1..(Len(s) - 1) : ~(s[i] = "_" /\ s[i + 1] = "_")

\* int(text) after the whitespace around it is gone and the sign is read
SignedInt(s) ==
    IF s # <<>> /\ s[1] \in {"+", "-"}
    THEN IF DigitGroups(Tail(s))
         THEN Gives((IF s[1] = "-" THEN -1 ELSE 1) * DigitsValue(s, 2, 0))
         ELSE Throws
    ELSE IF DigitGroups(s) THEN Gives(DigitsValue(s, 1, 0))
    ELSE Throws

\* int(text): ValueError for a text that is no integer literal
ParseInt(text) == SignedInt(Strip(text))

\* minutes, seconds = map(int, parts); return minutes * 60 + seconds
MinutesAndSeconds(m, sec) ==
    IF m.raised \/ sec.raised THEN Throws
    ELSE Gives(m.value * 60 + sec.value)

\* the body of the try, given timestamp.split(':')
SecondsOfParts(parts) ==
    IF Len(parts) = 2 THEN MinutesAndSeconds(ParseInt(parts[1]), ParseInt(parts[2]))
    ELSE Gives(0)

\* the body of the try: timestamp.split raises AttributeError for an int
SecondsBody(ts) ==
    IF ts.kind # "str" THEN Throws
    ELSE SecondsOfParts(Split(ts.text, <<":">>))

\* except: return 0
ZeroOnError(r) == IF r.raised THEN Gives(0) ELSE r

timestamp_to_seconds(ts) == ZeroOnError(SecondsBody(ts))

\* the parts timestamps are made of
TimestampParts == {
    <<>>, <<"0">>, <<"0","0">>, <<"1">>, <<"0","5">>, <<"1","0">>, <<"3","0">>,
    <<"6","0">>, <<"-","1">>, <<"-","5">>, <<"+","1">>, <<" ","5">>, <<"1","_","0">>,
    <<"x">>, <<"1","_">>, <<"-">>
}

\* the values _timestamp_to_seconds is called with
TimestampValues ==
    {IntTimestamp}
    \cup {Label(a) : a \in TimestampParts}
    \cup {Label(a \o <<":">> \o b) : a \in TimestampParts, b \in TimestampParts}
    \cup {Label(a \o <<":">> \o a \o <<":">> \o a) : a \in TimestampParts}

TimestampInit ==
    \* no call of ChannelAnalyzer, analyze_video_content or main
    /\ chResponse = NoneResponse
    /\ chTitle = <<>>
    /\ chVideoCount = 0
    /\ chResult = [raised |-> FALSE, value |-> JNull]
    /\ chPc = "idle"
    /\ subAnalyses = <<>>
    /\ failedComponents = 0
    /\ contentResult = [raised |-> FALSE, value |-> JNull]
    /\ contentPc = "idle"
    /\ videosData = <<>>
    /\ allSentiments = <<>>
    /\ videoScores = <<>>
    /\ bestVideo = [raised |-> FALSE, value |-> JNull]
    /\ recPc = "idle"
    /\ urlInputs = <<>>
    /\ newUrls = <<>>
    /\ urlIndex = 0
    /\ urlPc = "idle"
    /\ timestamp \in TimestampValues
    /\ seconds = Gives(0)
    /\ searchPc = "timestamp"
    /\ query = <<>>
    /\ modelLoaded = FALSE
    /\ videos = <<>>
    /\ ranked = [raised |-> FALSE, value |-> <<>>]
    /\ transcript = [kind |-> "none", text |-> <<>>]
    /\ segments = <<>>
    /\ relevant = [raised |-> FALSE, value |-> <<>>]
    \* no run of the parser
    /\ pInput = NoneResponse
    /\ pBody = <<>>
    /\ pWrap = "alone"
    /\ pStage = "idle"
    /\ pFirst = Absent
    /\ pSecond = Absent
    \* no call of _safe_api_call
    /\ maxRetries = 0
    /\ initialDelay = 0
    /\ attempt = 0
    /\ delay = 0
    /\ lastError = NoError
    /\ response = NoneResponse
    /\ rcPc = "idle"
    /\ outcome = NotEnded
    /\ trace = <<>>
    /\ parserRuns = <<>>
    \* no call of display_sentiment_analysis
    /\ comments = <<>>
    /\ topComments = <<>>
    /\ batchStart = 0
    /\ allAnalyses = <<>>
    /\ sentiments = [positive |-> 0, negative |-> 0]
    /\ batchLog = <<>>
    /\ sPc = "idle"

\* one call of _timestamp_to_seconds
TimestampToSeconds ==
    /\ searchPc = "timestamp"
    /\ seconds' = timestamp_to_seconds(timestamp)
    /\ searchPc' = "converted"
    /\ UNCHANGED <<query, modelLoaded, videos, ranked, transcript, segments,
                   relevant, timestamp>>
    /\ UNCHANGED <<parserVars, retryVars, sentimentVars, mainVars>>

----------------------------------------------------------------------------
(* Numbers, vectors and list.sort as SearchAnalyzer uses them              *)

\* A float is a whole number of millionths, or not-a-number; quotients and
\* products are cut to millionths.
Scale == 1000000
Fl(v) == [nan |-> FALSE, v |-> v]
NaN == [nan |-> TRUE, v |-> 0]

\* a < b and a > b, which are False when either is not-a-number
FLt(a, b) == ~a.nan /\ ~b.nan /\ a.v < b.v
FGt(a, b) == ~a.nan /\ ~b.nan /\ a.v > b.v

\* a + b, and (n / d) * a for whole numbers n and d
FAdd(a, b) == IF a.nan \/ b.nan THEN NaN ELSE Fl(a.v + b.v)
FTimes(n, d, a) == IF a.nan THEN NaN ELSE Fl((n * a.v) \div d)

\* np.dot and np.linalg.norm of vectors of four whole numbers whose length
\* is a whole number
Dot(a, b) == a[1] * b[1] + a[2] * b[2] + a[3] * b[3] + a[4] * b[4]
Norm(a) == CHOOSE r \in 0..Dot(a, a) : r * r = Dot(a, a)

\* np.dot(a, b) / (np.linalg.norm(a) * np.linalg.norm(b)): dividing 0 by 0
\* gives not-a-number, with a warning and no exception
Similarity(a, b) ==
    IF Norm(a) * Norm(b) = 0 THEN NaN
    ELSE Fl((Dot(a, b) * Scale) \div (Norm(a) * Norm(b)))

\* self.model.encode(text): the vector is decided by the first character
ZeroVector == <<0, 0, 0, 0>>
Encode(text) ==
    IF text = <<>> THEN ZeroVector
    ELSE CASE text[1] = "h" -> <<1, 0, 0, 0>>
           [] text[1] = "y" -> <<0, 1, 0, 0>>
           [] text[1] = "n" -> <<3, 4, 0, 0>>
           [] text[1] = "w" -> <<4, 3, 0, 0>>
           [] text[1] = "o" -> <<-1, 0, 0, 0>>
           [] text[1] = "a" -> <<1, 1, 1, 1>>
           [] OTHER -> ZeroVector

RECURSIVE ReverseSeq(_)
ReverseSeq(s) == IF s = <<>> THEN <<>> ELSE Append(ReverseSeq(Tail(s)), Head(s))

\* list.sort on fewer than 64 items, whose keys are the floats keys[i]:
\* the length of the run the list starts with, descending when the second
\* key is less than the first
RECURSIVE RunEnd(_, _, _)
RunEnd(keys, i, descending) ==
    IF i > Len(keys) THEN i - 1
    ELSE IF FLt(keys[i], keys[i - 1]) = descending THEN RunEnd(keys, i + 1, descending)
    ELSE i - 1

\* the place, counted from 0, at which binary insertion puts pivot into the
\* sorted keys[1..k]: l and r as in binarysort
RECURSIVE InsertionPoint(_, _, _, _)
InsertionPoint(keys, pivot, l, r) ==
    IF l >= r THEN l
    ELSE LET p == l + ((r - l) \div 2) IN
         IF FLt(pivot, keys[p + 1]) THEN InsertionPoint(keys, pivot, l, p)
         ELSE InsertionPoint(keys, pivot, p + 1, r)

InsertAt(s, at, x) == SubSeq(s, 1, at) \o <<x>> \o SubSeq(s, at + 1, Len(s))

\* binarysort: order[1..k] is sorted; the rest is inserted one by one.
\* order is a sequence of indices into keys.
RECURSIVE BinarySort(_, _, _)
BinarySort(keys, order, k) ==
    IF k >= Len(order) THEN order
    ELSE LET sortedKeys == [i \in 1..k |-> keys[order[i]]]
             at == InsertionPoint(sortedKeys, keys[order[k + 1]], 0, k)
         IN  BinarySort(keys,
                        InsertAt(SubSeq(order, 1, k), at, order[k + 1])
                            \o SubSeq(order, k + 2, Len(order)),
                        k + 1)

\* the ascending sort of the indices 1..Len(keys): the first run is found,
\* reversed when it descends, and extended by binary insertion
AscendingOrder(keys) ==
    LET n == Len(keys)
        identity == [i \in 1..n |-> i]
    IN  IF n < 2 THEN identity
        ELSE LET descending == FLt(keys[2], keys[1])
                 run == RunEnd(keys, 3, descending)
                 start == IF descending
                          THEN ReverseSeq(SubSeq(identity, 1, run)) \o SubSeq(identity, run + 1, n)
                          ELSE identity
             IN  BinarySort(keys, start, run)

\* items.sort(key=..., reverse=True), keys[i] the key of items[i]: the list
\* is reversed, sorted ascending and reversed again
SortReverse(items, keys) ==
    LET n == Len(items)
        order == AscendingOrder(ReverseSeq(keys))
    IN  ReverseSeq([i \in 1..n |-> items[n + 1 - order[i]]])

\* items[:3]
FirstThree(items) == SubSeq(items, 1, Min(3, Len(items)))

----------------------------------------------------------------------------
(* SearchAnalyzer._find_relevant_segments                                  *)

MaxLines == 3

NoTranscript == [kind |-> "none", text |-> <<>>]
TranscriptText(text) == [kind |-> "str", text |-> text]
OtherTranscript == [kind |-> "other", text |-> <<>>]

\* s.strip('[')
RECURSIVE StripBrackets(_)
StripBrackets(s) ==
    IF s # <<>> /\ s[1] = "[" THEN StripBrackets(Tail(s))
    ELSE IF s # <<>> /\ s[Len(s)] = "[" THEN StripBrackets(SubSeq(s, 1, Len(s) - 1))
    ELSE s

\* ' '.join(pieces)
RECURSIVE JoinSpace(_)
JoinSpace(pieces) ==
    IF pieces = <<>> THEN <<>>
    ELSE IF Len(pieces) = 1 THEN pieces[1]
    ELSE pieces[1] \o <<" ">> \o JoinSpace(Tail(pieces))

\* the record appended to segments
Segment(ts, pieces) ==
    [timestamp |-> ts,
     text |-> JoinSpace(pieces),
     seconds |-> timestamp_to_seconds(ts).value]

\* if current_text: segments.append({...})
Flushed(segs, ts, pieces) ==
    IF pieces # <<>> THEN Append(segs, Segment(ts, pieces)) ELSE segs

\* a line with both brackets, the first "]" at line[i]: the segment being
\* collected is closed and the label and text of the line open the next
BracketedLine(st, line, i) ==
    [segments |-> Flushed(st.segments, st.ts, st.pieces),
     ts |-> Label(StripBrackets(SubSeq(line, 1, i - 1))),
     pieces |-> IF Strip(SubSeq(line, i + 1, Len(line))) # <<>>
                THEN <<Strip(SubSeq(line, i + 1, Len(line)))>>
                ELSE <<>>]

\* the body of for line in transcript.split('\n')
ScanLine(st, line) ==
    IF Strip(line) = <<>> THEN st
    ELSE IF Contains(line, <<"[">>) /\ Contains(line, <<"]">>)
         THEN BracketedLine(st, line, FindFrom(line, <<"]">>, 1))
    ELSE [st EXCEPT !.pieces = Append(@, Strip(line))]

RECURSIVE ScanLines(_, _, _)
ScanLines(st, lines, i) ==
    IF i > Len(lines) THEN st
    ELSE ScanLines(ScanLine(st, lines[i]), lines, i + 1)

\* FinalFlush with the flush after the loop missing
FinalFlushMissing(st) == st.segments

\* the final segment, if there is remaining text
FinalFlush(st) == Flushed(st.segments, st.ts, st.pieces)

\* segments, as it is when the loop over the lines and the final flush are done
SegmentsOf(text) ==
    FinalFlush(ScanLines([segments |-> <<>>, ts |-> IntTimestamp, pieces |-> <<>>],
                         Split(text, <<"\n">>), 1))

\* the record appended to relevant_segments
Scored(segment, similarity) ==
    [timestamp |-> segment.timestamp,
     text |-> segment.text,
     similarity |-> similarity,
     seconds |-> segment.seconds]

\* if similarity > 0.5
AboveFloor(similarity) == FGt(similarity, Fl(Scale \div 2))

\* relevant_segments before it is sorted
RECURSIVE RelevantSegments(_, _, _)
RelevantSegments(segs, q, i) ==
    IF i > Len(segs) THEN <<>>
    ELSE IF AboveFloor(Similarity(Encode(q), Encode(segs[i].text)))
         THEN <<Scored(segs[i], Similarity(Encode(q), Encode(segs[i].text)))>>
              \o RelevantSegments(segs, q, i + 1)
    ELSE RelevantSegments(segs, q, i + 1)

\* relevant_segments.sort(key=similarity, reverse=True); return relevant_segments[:3]
TopSegments(rel) ==
    FirstThree(SortReverse(rel, [i \in 1..Len(rel) |-> rel[i].similarity]))

\* the early returns: no transcript, no query, a transcript that is no text
\* or is blank
NothingToSearch(tr, q) ==
    \/ tr.kind = "none"
    \/ tr.kind = "str" /\ tr.text = <<>>
    \/ q = <<>>
    \/ tr.kind # "str"
    \/ Strip(tr.text) = <<>>

\* the body of the try: self.model.encode raises AttributeError when the
\* model was not loaded
SegmentsBody(tr, q, loaded) ==
    IF ~loaded THEN [raised |-> TRUE, value |-> <<>>]
    ELSE [raised |-> FALSE, value |-> TopSegments(RelevantSegments(SegmentsOf(tr.text), q, 1))]

\* EmptyOnError with the except clause missing
PropagateError(r) == r

\* except Exception: return []
EmptyOnError(r) == IF r.raised THEN [raised |-> FALSE, value |-> <<>>] ELSE r

find_relevant_segments(tr, q, loaded) ==
    IF NothingToSearch(tr, q) THEN [raised |-> FALSE, value |-> <<>>]
    ELSE EmptyOnError(SegmentsBody(tr, q, loaded))

\* the lines transcripts are made of
TranscriptLines == {
    <<"[","0","0",":","1","0","]"," ","h","e","l","l","o">>,  \* a label and text
    <<"w","o","r","l","d">>,                                  \* a continuation line
    <<"[","0","1",":","0","5","]"," ","n","e","x","t">>,      \* a label and text
    <<"[","0","0",":","2","0","]">>,                          \* a label with no text
    <<"[","-","1",":","3","0","]"," ","n","o","w">>,          \* a negative minute
    <<"[","0","0",":","-","5","]"," ","y","e","s">>,          \* a negative second
    <<"[","a","b","c","]"," ","a","s">>,                      \* a label that is no time
    <<" "," ">>,                                              \* a blank line
    <<" ","h","i"," ","[","1","]"," ","o","k"," ">>           \* brackets inside the text
}

RECURSIVE JoinLines(_)
JoinLines(lines) ==
    IF lines = <<>> THEN <<>>
    ELSE IF Len(lines) = 1 THEN lines[1]
    ELSE lines[1] \o <<"\n">> \o JoinLines(Tail(lines))

LineSeqs == UNION {[1..n -> TranscriptLines] : n \in 0..MaxLines}

Transcripts ==
    {NoTranscript, OtherTranscript} \cup {TranscriptText(JoinLines(ls)) : ls \in LineSeqs}

Queries == {<<"h","o","w">>, <<>>}

SegmentsInit ==
    \* no call of ChannelAnalyzer, analyze_video_content or main
    /\ chResponse = NoneResponse
    /\ chTitle = <<>>
    /\ chVideoCount = 0
    /\ chResult = [raised |-> FALSE, value |-> JNull]
    /\ chPc = "idle"
    /\ subAnalyses = <<>>
    /\ failedComponents = 0
    /\ contentResult = [raised |-> FALSE, value |-> JNull]
    /\ contentPc = "idle"
    /\ videosData = <<>>
    /\ allSentiments = <<>>
    /\ videoScores = <<>>
    /\ bestVideo = [raised |-> FALSE, value |-> JNull]
    /\ recPc = "idle"
    /\ urlInputs = <<>>
    /\ newUrls = <<>>
    /\ urlIndex = 0
    /\ urlPc = "idle"
    /\ transcript \in Transcripts
    /\ query \in Queries
    /\ modelLoaded \in BOOLEAN
    /\ segments = <<>>
    /\ relevant = [raised |-> FALSE, value |-> <<>>]
    /\ searchPc = "segments"
    /\ videos = <<>>
    /\ ranked = [raised |-> FALSE, value |-> <<>>]
    /\ timestamp = IntTimestamp
    /\ seconds = Gives(0)
    \* no run of the parser
    /\ pInput = NoneResponse
    /\ pBody = <<>>
    /\ pWrap = "alone"
    /\ pStage = "idle"
    /\ pFirst = Absent
    /\ pSecond = Absent
    \* no call of _safe_api_call
    /\ maxRetries = 0
    /\ initialDelay = 0
    /\ attempt = 0
    /\ delay = 0
    /\ lastError = NoError
    /\ response = NoneResponse
    /\ rcPc = "idle"
    /\ outcome = NotEnded
    /\ trace = <<>>
    /\ parserRuns = <<>>
    \* no call of display_sentiment_analysis
    /\ comments = <<>>
    /\ topComments = <<>>
    /\ batchStart = 0
    /\ allAnalyses = <<>>
    /\ sentiments = [positive |-> 0, negative |-> 0]
    /\ batchLog = <<>>
    /\ sPc = "idle"

\* one call of _find_relevant_segments; segments is the local list, which
\* is built when the call gets past its early returns
FindRelevantSegments ==
    /\ searchPc = "segments"
    /\ segments' = IF NothingToSearch(transcript, query) THEN <<>>
                   ELSE SegmentsOf(transcript.text)
    /\ relevant' = find_relevant_segments(transcript, query, modelLoaded)
    /\ searchPc' = "segmented"
    /\ UNCHANGED <<query, modelLoaded, videos, ranked, transcript, timestamp, seconds>>
    /\ UNCHANGED <<parserVars, retryVars, sentimentVars, mainVars>>

----------------------------------------------------------------------------
(* SearchAnalyzer.rank_videos                                              *)

MaxVideos == 4

\* A video is the dict rank_videos reads: missing names the key the dict
\* lacks ("none" when it has them all); publishedAt stands for the text of
\* the date, which strptime parses (ok) or rejects, and for the whole days
\* from that date to datetime.now().
Video(id, missing, title, views, likes, ok, days, tr) ==
    [video_id |-> id, missing |-> missing, title |-> title, views |-> views,
     likes |-> likes, publishedAt |-> [ok |-> ok, days |-> days], transcript |-> tr]

\* _get_video_embedding: the content starts with the title
EmbeddingRaises(video) == video.missing \in {"title", "description", "tags"}
get_video_embedding(video) == Encode(video.title \o <<" ">>)

\* np.log1p(days) for days in 0..3, in thousandths
Log1p == <<0, 693, 1099, 1386>>

\* 2 / (1 + np.log1p(days)): log1p(-1) is -inf and the quotient is zero;
\* the log of a negative number is not-a-number
RecencyBoost(days) ==
    IF days < -1 THEN NaN
    ELSE IF days = -1 THEN Fl(0)
    ELSE Fl((2 * 1000 * Scale) \div (1000 + Log1p[days + 1]))

\* likes / views if views > 0 else 0
BaseEngagement(video) ==
    IF video.views > 0 THEN Fl((video.likes * Scale) \div video.views) ELSE Fl(0)

\* strptime(video['publishedAt'], ...) raises
DateRaises(video) == video.missing = "publishedAt" \/ ~video.publishedAt.ok

\* _calculate_engagement_score: 0 when anything in it raises
calculate_engagement_score(video) ==
    IF video.missing \in {"views", "likes"} \/ DateRaises(video) THEN Fl(0)
    ELSE FAdd(FTimes(4, 10, BaseEngagement(video)),
              FTimes(6, 10, RecencyBoost(video.publishedAt.days)))

\* final_score = 0.5 * similarity + 0.5 * engagement_score
FinalScore(similarity, engagement) ==
    FAdd(FTimes(5, 10, similarity), FTimes(5, 10, engagement))

\* the dict appended to ranked_videos
RankedVideo(video, q, similarity, engagement) ==
    [video |-> video,
     similarity |-> similarity,
     engagement_score |-> engagement,
     final_score |-> FinalScore(similarity, engagement),
     published_date |-> video.publishedAt.days,
     relevant_segments |-> find_relevant_segments(video.transcript, q, TRUE).value]

\* one pass of the loop body raises
VideoRaises(video) == EmbeddingRaises(video) \/ DateRaises(video)

\* ranked_videos.sort(key=final_score, reverse=True); return ranked_videos[:3]
TopVideos(items) ==
    FirstThree(SortReverse(items, [i \in 1..Len(items) |-> items[i].final_score]))

\* the body of the try: self.model.encode raises AttributeError when the
\* model was not loaded
RankBody(q, vids, loaded) ==
    IF ~loaded \/ \E i \in 1..Len(vids) : VideoRaises(vids[i])
    THEN [raised |-> TRUE, value |-> <<>>]
    ELSE [raised |-> FALSE,
          value |-> TopVideos([i \in 1..Len(vids) |->
                       RankedVideo(vids[i], q,
                                   Similarity(Encode(q), get_video_embedding(vids[i])),
                                   calculate_engagement_score(vids[i]))])]

rank_videos(q, vids, loaded) ==
    IF vids = <<>> THEN [raised |-> FALSE, value |-> <<>>]
    ELSE EmptyOnError(RankBody(q, vids, loaded))

HelloTranscript ==
    TranscriptText(<<"[","0","0",":","1","0","]"," ","h","e","l","l","o">>)

\* the kinds of video the lists are made of
VideoKinds == {
    Video(0, "none", <<"h","o","w">>, 10, 5, TRUE, 0, HelloTranscript),
    Video(0, "none", <<"n","e","w">>, 0, 5, TRUE, 1, NoTranscript),
    Video(0, "views", <<"w","h","y">>, 10, 5, TRUE, 3, NoTranscript),
    Video(0, "none", <<"h","o","w">>, 10, 5, TRUE, -3, NoTranscript),     \* a date in the future
    Video(0, "none", <<"z","z">>, 10, 5, TRUE, 0, NoTranscript),          \* a zero embedding
    Video(0, "none", <<"h","o","w">>, 10, 5, FALSE, 0, NoTranscript),     \* a date that does not parse
    Video(0, "title", <<>>, 10, 5, TRUE, 0, NoTranscript)                 \* no title
}

\* the lists of at most MaxVideos videos; video_id is the place in the list
VideoLists ==
    UNION {{[i \in 1..n |-> [kinds[i] EXCEPT !.video_id = i]] : kinds \in [1..n -> VideoKinds]}
           : n \in 0..MaxVideos}

SearchInit ==
    \* no call of ChannelAnalyzer, analyze_video_content or main
    /\ chResponse = NoneResponse
    /\ chTitle = <<>>
    /\ chVideoCount = 0
    /\ chResult = [raised |-> FALSE, value |-> JNull]
    /\ chPc = "idle"
    /\ subAnalyses = <<>>
    /\ failedComponents = 0
    /\ contentResult = [raised |-> FALSE, value |-> JNull]
    /\ contentPc = "idle"
    /\ videosData = <<>>
    /\ allSentiments = <<>>
    /\ videoScores = <<>>
    /\ bestVideo = [raised |-> FALSE, value |-> JNull]
    /\ recPc = "idle"
    /\ urlInputs = <<>>
    /\ newUrls = <<>>
    /\ urlIndex = 0
    /\ urlPc = "idle"
    /\ query \in Queries
    /\ modelLoaded \in BOOLEAN
    /\ \/ searchPc = "rank" /\ videos \in VideoLists /\ transcript = NoTranscript
       \/ searchPc = "segments" /\ videos = <<>> /\ transcript \in Transcripts
    /\ ranked = [raised |-> FALSE, value |-> <<>>]
    /\ segments = <<>>
    /\ relevant = [raised |-> FALSE, value |-> <<>>]
    /\ timestamp = IntTimestamp
    /\ seconds = Gives(0)
    \* no run of the parser
    /\ pInput = NoneResponse
    /\ pBody = <<>>
    /\ pWrap = "alone"
    /\ pStage = "idle"
    /\ pFirst = Absent
    /\ pSecond = Absent
    \* no call of _safe_api_call
    /\ maxRetries = 0
    /\ initialDelay = 0
    /\ attempt = 0
    /\ delay = 0
    /\ lastError = NoError
    /\ response = NoneResponse
    /\ rcPc = "idle"
    /\ outcome = NotEnded
    /\ trace = <<>>
    /\ parserRuns = <<>>
    \* no call of display_sentiment_analysis
    /\ comments = <<>>
    /\ topComments = <<>>
    /\ batchStart = 0
    /\ allAnalyses = <<>>
    /\ sentiments = [positive |-> 0, negative |-> 0]
    /\ batchLog = <<>>
    /\ sPc = "idle"

\* one call of rank_videos
RankVideos ==
    /\ searchPc = "rank"
    /\ ranked' = rank_videos(query, videos, modelLoaded)
    /\ searchPc' = "ranked"
    /\ UNCHANGED <<query, modelLoaded, videos, transcript, segments, relevant,
                   timestamp, seconds>>
    /\ UNCHANGED <<parserVars, retryVars, sentimentVars, mainVars>>

----------------------------------------------------------------------------
(* VideoAnalyzer.extract_video_id, is_duplicate_url and the URL inputs of  *)
(* main                                                                    *)

MaxUrls == 3

LowerLetters == <<"a","b","c","d","e","f","g","h","i","j","k","l","m",
                  "n","o","p","q","r","s","t","u","v","w","x","y","z">>
UpperLetters == <<"A","B","C","D","E","F","G","H","I","J","K","L","M",
                  "N","O","P","Q","R","S","T","U","V","W","X","Y","Z">>

\* str.lower()
LowerChar(c) ==
    IF \E k \in 1..26 : UpperLetters[k] = c
    THEN LowerLetters[CHOOSE k \in 1..26 : UpperLetters[k] = c]
    ELSE c
LowerText(s) == [k \in 1..Len(s) |-> LowerChar(s[k])]

\* the first index >= i whose character is in cls (Len(s)+1 when none)
RECURSIVE FirstOf(_, _, _)
FirstOf(s, i, cls) ==
    IF i > Len(s) THEN i
    ELSE IF s[i] \in cls THEN i
    ELSE FirstOf(s, i + 1, cls)

\* urlparse: the scheme ends at the first ":" when the text before it
\* starts with a letter and is made of scheme characters
SchemeChars == Lower \cup Upper \cup Digits \cup {"+", "-", "."}
SchemeEnd(url) ==
    LET i == FindFrom(url, <<":">>, 1) IN
    IF i > 1 /\ url[1] \in Lower \cup Upper /\ \A k \in 1..(i - 1) : url[k] \in SchemeChars
    THEN i ELSE 0

\* the network location follows "//" and ends before the first of / ? #
HasNetloc(rest) == StartsWith(rest, 1, <<"/","/">>)
NetlocEnd(rest) == FirstOf(rest, 3, {"/", "?", "#"})

\* urlparse(url) for a url with no user, port or parameters: hostname is
\* None when there is no network location
UrlParts(rest) ==
    LET tail == IF HasNetloc(rest) THEN Drop(rest, NetlocEnd(rest) - 1) ELSE rest
        noFragment == SubSeq(tail, 1, FirstOf(tail, 1, {"#"}) - 1)
        q == FirstOf(noFragment, 1, {"?"})
    IN  [hostname |-> IF HasNetloc(rest) /\ NetlocEnd(rest) > 3
                      THEN [none |-> FALSE, text |-> LowerText(SubSeq(rest, 3, NetlocEnd(rest) - 1))]
                      ELSE [none |-> TRUE, text |-> <<>>],
         path |-> SubSeq(noFragment, 1, q - 1),
         query |-> Drop(noFragment, q)]
urlparse(url) == UrlParts(Drop(url, SchemeEnd(url)))

\* what extract_video_id returns: None or a text
NoVideoId == [none |-> TRUE, id |-> <<>>]
VideoId(text) == [none |-> FALSE, id |-> text]

\* parse_qs(query)['v'][0]: the fields are split at "&", a field with no
\* "=" or with a blank value is left out, and a missing v raises KeyError
RECURSIVE FirstV(_, _)
FirstV(fields, i) ==
    IF i > Len(fields) THEN NoVideoId
    ELSE IF StartsWith(fields[i], 1, <<"v","=">>) /\ Len(fields[i]) > 2
         THEN VideoId(Drop(fields[i], 2))
    ELSE FirstV(fields, i + 1)
WatchId(qs) == FirstV(Split(qs, <<"&">>), 1)

\* parsed_url.path.split('/shorts/')[1].split('?')[0]
ShortsId(path) == VideoId(Split(Split(path, <<"/","s","h","o","r","t","s","/">>)[2], <<"?">>)[1])

YoutuBe == <<"y","o","u","t","u",".","b","e">>
YoutubeHosts == {<<"w","w","w",".","y","o","u","t","u","b","e",".","c","o","m">>, <<"y","o","u","t","u","b","e",".","c","o","m">>}

\* the body of the try, given the parsed url
IdOfParts(parts) ==
    IF ~parts.hostname.none /\ parts.hostname.text = YoutuBe THEN VideoId(Drop(parts.path, 1))
    ELSE IF ~parts.hostname.none /\ parts.hostname.text \in YoutubeHosts
         THEN IF parts.path = <<"/","w","a","t","c","h">> THEN WatchId(parts.query)
              ELSE IF StartsWith(parts.path, 1, <<"/","s","h","o","r","t","s","/">>)
                   THEN ShortsId(parts.path)
              ELSE NoVideoId
    ELSE NoVideoId

extract_video_id(url) == IF url = <<>> THEN NoVideoId ELSE IdOfParts(urlparse(url))

\* not new_video_id
NoId(v) == v.none \/ v.id = <<>>

\* is_duplicate_url comparing the texts of the urls
is_duplicate_url_by_text(url, existing_urls) ==
    \E k \in 1..Len(existing_urls) : existing_urls[k] = url

is_duplicate_url(url, existing_urls) ==
    IF url = <<>> THEN FALSE
    ELSE IF NoId(extract_video_id(url)) THEN FALSE
    ELSE \E k \in 1..Len(existing_urls) :
            extract_video_id(existing_urls[k]) = extract_video_id(url)

\* the texts typed into the URL inputs
UrlTexts == {
    <<>>,
    <<"h","t","t","p","s",":","/","/","w","w","w",".","y","o","u","t","u","b","e",".","c","o","m","/","w","a","t","c","h","?","v","=","A">>,
    <<"h","t","t","p","s",":","/","/","y","o","u","t","u",".","b","e","/","A">>,
    <<"h","t","t","p","s",":","/","/","w","w","w",".","y","o","u","t","u","b","e",".","c","o","m","/","s","h","o","r","t","s","/","A">>,
    <<"h","t","t","p","s",":","/","/","y","o","u","t","u","b","e",".","c","o","m","/","w","a","t","c","h","?","v","=","B">>,
    <<"h","t","t","p","s",":","/","/","y","o","u","t","u",".","b","e","/","B","?","t","=","5">>,
    <<"h","t","t","p","s",":","/","/","w","w","w",".","y","o","u","t","u","b","e",".","c","o","m","/","w","a","t","c","h","?","t","=","1","&","v","=","A">>,
    <<"h","t","t","p","s",":","/","/","m",".","y","o","u","t","u","b","e",".","c","o","m","/","w","a","t","c","h","?","v","=","A">>,
    <<"h","t","t","p","s",":","/","/","w","w","w",".","y","o","u","t","u","b","e",".","c","o","m","/","w","a","t","c","h">>,
    <<"y","o","u","t","u",".","b","e","/","A">>,
    <<"h","t","t","p","s",":","/","/","y","o","u","t","u",".","b","e","/">>,
    <<"h","t","t","p","s",":","/","/","Y","O","U","T","U",".","B","E","/","B","#","x">>,
    <<"h","t","t","p","s",":","/","/","w","w","w",".","y","o","u","t","u","b","e",".","c","o","m","/","w","a","t","c","h","?","v","=","&","v","=","B">>,
    <<"h","t","t","p","s",":","/","/","w","w","w",".","y","o","u","t","u","b","e",".","c","o","m","/","e","m","b","e","d","/","A">>
}

UrlInit ==
    /\ urlInputs \in UNION {[1..n -> UrlTexts] : n \in 1..MaxUrls}
    /\ newUrls = <<>>
    /\ urlIndex = 0
    /\ urlPc = "inputs"
    \* no run of the parser
    /\ pInput = NoneResponse
    /\ pBody = <<>>
    /\ pWrap = "alone"
    /\ pStage = "idle"
    /\ pFirst = Absent
    /\ pSecond = Absent
    \* no call of _safe_api_call
    /\ maxRetries = 0
    /\ initialDelay = 0
    /\ attempt = 0
    /\ delay = 0
    /\ lastError = NoError
    /\ response = NoneResponse
    /\ rcPc = "idle"
    /\ outcome = NotEnded
    /\ trace = <<>>
    /\ parserRuns = <<>>
    \* no call of display_sentiment_analysis
    /\ comments = <<>>
    /\ topComments = <<>>
    /\ batchStart = 0
    /\ allAnalyses = <<>>
    /\ sentiments = [positive |-> 0, negative |-> 0]
    /\ batchLog = <<>>
    /\ sPc = "idle"
    \* no call of SearchAnalyzer
    /\ query = <<>>
    /\ modelLoaded = FALSE
    /\ videos = <<>>
    /\ ranked = [raised |-> FALSE, value |-> <<>>]
    /\ transcript = [kind |-> "none", text |-> <<>>]
    /\ segments = <<>>
    /\ relevant = [raised |-> FALSE, value |-> <<>>]
    /\ timestamp = [kind |-> "int", text |-> <<>>]
    /\ seconds = [raised |-> FALSE, value |-> 0]
    /\ searchPc = "idle"
    \* no call of ChannelAnalyzer
    /\ chResponse = NoneResponse
    /\ chTitle = <<>>
    /\ chVideoCount = 0
    /\ chResult = [raised |-> FALSE, value |-> JNull]
    /\ chPc = "idle"
    \* no call of analyze_video_content
    /\ subAnalyses = <<>>
    /\ failedComponents = 0
    /\ contentResult = [raised |-> FALSE, value |-> JNull]
    /\ contentPc = "idle"
    \* no recommendation
    /\ videosData = <<>>
    /\ allSentiments = <<>>
    /\ videoScores = <<>>
    /\ bestVideo = [raised |-> FALSE, value |-> JNull]
    /\ recPc = "idle"

\* one iteration of for i in range(num_videos)
EnterUrl ==
    /\ urlPc = "inputs"
    /\ urlIndex < Len(urlInputs)
    /\ LET url == urlInputs[urlIndex + 1] IN
       newUrls' = IF url = <<>> THEN newUrls
                  ELSE IF is_duplicate_url(url, newUrls) THEN newUrls
                  ELSE Append(newUrls, url)
    /\ urlIndex' = urlIndex + 1
    /\ UNCHANGED <<urlInputs, urlPc>>
    /\ UNCHANGED <<parserVars, retryVars, sentimentVars, searchVars, channelVars,
                   contentVars, recommendVars>>

\* the loop over the inputs ends
UrlsEntered ==
    /\ urlPc = "inputs"
    /\ urlIndex >= Len(urlInputs)
    /\ urlPc' = "entered"
    /\ UNCHANGED <<urlInputs, newUrls, urlIndex>>
    /\ UNCHANGED <<parserVars, retryVars, sentimentVars, searchVars, channelVars,
                   contentVars, recommendVars>>

----------------------------------------------------------------------------
(* ContentAnalyzer.analyze_video_content                                   *)

SubjectKey == <<"s","u","b","j","e","c","t">>
SubtopicKey == <<"s","u","b","t","o","p","i","c">>
DifficultyKey == <<"d","i","f","f","i","c","u","l","t","y","_","l","e","v","e","l">>
AudienceKey == <<"t","a","r","g","e","t","_","a","u","d","i","e","n","c","e">>
PrerequisitesKey == <<"p","r","e","r","e","q","u","i","s","i","t","e","s">>
ConceptsKey == <<"c","o","n","c","e","p","t","s">>
Unknown == JStr(<<"U","n","k","n","o","w","n">>)
AnalysisUnavailable == JStr(<<"A","n","a","l","y","s","i","s"," ","U","n","a","v","a","i","l","a","b","l","e">>)

\* what a call of _safe_api_call returned: exhausted says that it was the
\* fallback record of the last failed attempt
SubCall(exhausted, value) == [exhausted |-> exhausted, value |-> value]

\* the records the model answers with
ModelRecords == {
    JObj(<<JPair(SubjectKey, JStr(<<"M","a","t","h">>)),
           JPair(SubtopicKey, JStr(<<"A","l","g","e","b","r","a">>)),
           JPair(DifficultyKey, JStr(<<"B","e","g","i","n","n","e","r">>)),
           JPair(AudienceKey, JStr(<<"S","t","u","d","e","n","t","s">>)),
           JPair(PrerequisitesKey, JArr(<<JStr(<<"x">>)>>)),
           JPair(ConceptsKey, JArr(<<JStr(<<"y">>)>>))>>),
    JObj(<<JPair(<<"s","u","m","m","a","r","y">>, JStr(<<"s">>))>>),
    JObj(<<JPair(SubjectKey, AnalysisUnavailable)>>),
    JObj(<<JPair(SubjectKey, JNull),
           JPair(PrerequisitesKey, JNull),
           JPair(ConceptsKey, JNull)>>)}

SubCalls ==
    {SubCall(TRUE, Sentinel(e)) : e \in {EmptyResponseError, ParseFailedError}}
    \cup {SubCall(FALSE, v) : v \in ModelRecords}

\* str(x) of a text and of None
PyStr(v) == IF v.t = "null" THEN JStr(<<"N","o","n","e">>) ELSE v

\* x.get("subject") == "Analysis Unavailable"
CountsAsFailed(x) == SubjectKey \in DictKeys(x) /\ DictGet(x, SubjectKey) = AnalysisUnavailable

\* CountsAsFailed testing the subject the fallback record carries
CountsAsFailedByError(x) ==
    /\ SubjectKey \in DictKeys(x)
    /\ DictGet(x, SubjectKey) = JStr(<<"A","n","a","l","y","s","i","s"," ","E","r","r","o","r">>)

\* failed_components
FailedComponents(subject, difficulty, concepts) ==
    Cardinality({i \in 1..3 : CountsAsFailed(<<subject, difficulty, concepts>>[i])})

\* [str(p) for p in x.get(key, [])] raises when the value is no list
ListRaises(x, key) == key \in DictKeys(x) /\ DictGet(x, key).t # "arr"
StrList(x, key) ==
    LET items == GetOr(x, key, JArr(<<>>)).kids IN
    JArr([k \in 1..Len(items) |-> PyStr(items[k])])

\* the dict the call returns; None when building it raises
ContentRecord(subject, difficulty, concepts) ==
    IF ListRaises(difficulty, PrerequisitesKey) \/ ListRaises(concepts, ConceptsKey)
    THEN [raised |-> FALSE, value |-> JNull]
    ELSE [raised |-> FALSE,
          value |-> JObj(<<
              JPair(SubjectKey, PyStr(GetOr(subject, SubjectKey, Unknown))),
              JPair(SubtopicKey, PyStr(GetOr(subject, SubtopicKey, Unknown))),
              JPair(DifficultyKey, PyStr(GetOr(difficulty, DifficultyKey, Unknown))),
              JPair(AudienceKey, PyStr(GetOr(difficulty, AudienceKey, Unknown))),
              JPair(PrerequisitesKey, StrList(difficulty, PrerequisitesKey)),
              JPair(ConceptsKey, StrList(concepts, ConceptsKey))>>)]

ContentInit ==
    /\ subAnalyses \in [1..3 -> SubCalls]
    /\ failedComponents = 0
    /\ contentResult = [raised |-> FALSE, value |-> JNull]
    /\ contentPc = "start"
    \* no run of the parser
    /\ pInput = NoneResponse
    /\ pBody = <<>>
    /\ pWrap = "alone"
    /\ pStage = "idle"
    /\ pFirst = Absent
    /\ pSecond = Absent
    \* no call of _safe_api_call
    /\ maxRetries = 0
    /\ initialDelay = 0
    /\ attempt = 0
    /\ delay = 0
    /\ lastError = NoError
    /\ response = NoneResponse
    /\ rcPc = "idle"
    /\ outcome = NotEnded
    /\ trace = <<>>
    /\ parserRuns = <<>>
    \* no call of display_sentiment_analysis
    /\ comments = <<>>
    /\ topComments = <<>>
    /\ batchStart = 0
    /\ allAnalyses = <<>>
    /\ sentiments = [positive |-> 0, negative |-> 0]
    /\ batchLog = <<>>
    /\ sPc = "idle"
    \* no call of SearchAnalyzer
    /\ query = <<>>
    /\ modelLoaded = FALSE
    /\ videos = <<>>
    /\ ranked = [raised |-> FALSE, value |-> <<>>]
    /\ transcript = [kind |-> "none", text |-> <<>>]
    /\ segments = <<>>
    /\ relevant = [raised |-> FALSE, value |-> <<>>]
    /\ timestamp = [kind |-> "int", text |-> <<>>]
    /\ seconds = [raised |-> FALSE, value |-> 0]
    /\ searchPc = "idle"
    \* no call of ChannelAnalyzer
    /\ chResponse = NoneResponse
    /\ chTitle = <<>>
    /\ chVideoCount = 0
    /\ chResult = [raised |-> FALSE, value |-> JNull]
    /\ chPc = "idle"
    \* no recommendation
    /\ videosData = <<>>
    /\ allSentiments = <<>>
    /\ videoScores = <<>>
    /\ bestVideo = [raised |-> FALSE, value |-> JNull]
    /\ recPc = "idle"
    \* no URL inputs
    /\ urlInputs = <<>>
    /\ newUrls = <<>>
    /\ urlIndex = 0
    /\ urlPc = "idle"

\* the three calls of _safe_api_call have returned: failed_components is
\* counted and the dict is built
AnalyzeVideoContent ==
    /\ contentPc = "start"
    /\ failedComponents' = FailedComponents(subAnalyses[1].value, subAnalyses[2].value,
                                            subAnalyses[3].value)
    /\ contentResult' = ContentRecord(subAnalyses[1].value, subAnalyses[2].value,
                                      subAnalyses[3].value)
    /\ contentPc' = "done"
    /\ UNCHANGED subAnalyses
    /\ UNCHANGED <<parserVars, retryVars, sentimentVars, searchVars, channelVars,
                   recommendVars, urlVars>>

----------------------------------------------------------------------------
(* main: the comments analysis and the recommendation of several videos    *)

MaxAnalysed == 3

\* A video of videos_data: tallies is what display_sentiment_analysis
\* returns for it, and analysis is its entry of videos_content_analysis,
\* given by whether it has concepts, prerequisites and a known difficulty.
AnalysedVideo(title, likes, comments_count, views, enabled, tallies, analysis) ==
    [title |-> title, likes |-> likes, comments_count |-> comments_count,
     views |-> views, comments_enabled |-> enabled, tallies |-> tallies,
     analysis |-> analysis]

Tallies(positive, negative) == [positive |-> positive, negative |-> negative]
Quality(concepts, prerequisites, difficulty) ==
    [concepts |-> concepts, prerequisites |-> prerequisites, difficulty |-> difficulty]

\* the kinds of video the lists are made of
AnalysedKinds == {
    AnalysedVideo(0, 10, 10, 100, TRUE, Tallies(3, 1), Quality(TRUE, TRUE, TRUE)),
    AnalysedVideo(0, 10, 10, 100, TRUE, Tallies(1, 3), Quality(TRUE, FALSE, FALSE)),
    AnalysedVideo(0, 5, 0, 0, TRUE, Tallies(0, 0), Quality(FALSE, FALSE, TRUE)),
    AnalysedVideo(0, 40, 10, 100, TRUE, Tallies(4, 0), Quality(FALSE, FALSE, FALSE)),
    AnalysedVideo(0, 10, 10, 100, FALSE, Tallies(0, 0), Quality(TRUE, TRUE, TRUE)),
    AnalysedVideo(0, 40, 10, 100, FALSE, Tallies(0, 0), Quality(FALSE, FALSE, FALSE))}

\* the entry appended to all_sentiments
SentimentEntry(video) ==
    [title |-> video.title,
     sentiments |-> Tallies(video.tallies.positive, video.tallies.negative)]

\* all_sentiments after the loop over the first i videos: an entry for each
\* video with comments enabled
RECURSIVE CollectedSentiments(_, _)
CollectedSentiments(vids, i) ==
    IF i = 0 THEN <<>>
    ELSE IF vids[i].comments_enabled
         THEN Append(CollectedSentiments(vids, i - 1), SentimentEntry(vids[i]))
    ELSE CollectedSentiments(vids, i - 1)

\* a / b if b > 0 else 0
RatioOrZero(a, b) == IF b > 0 THEN Fl((a * Scale) \div b) ELSE Fl(0)

\* (x) * 0.5 + (y) * 0.3 + (z) * 0.2 for booleans
ContentScore(q) ==
    Fl((IF q.concepts THEN 5 * (Scale \div 10) ELSE 0)
       + (IF q.prerequisites THEN 3 * (Scale \div 10) ELSE 0)
       + (IF q.difficulty THEN 2 * (Scale \div 10) ELSE 0))

\* the entry appended to video_scores
VideoScore(video, sentiment) ==
    LET engagement_rate == RatioOrZero(video.likes + video.comments_count, video.views)
        sentiment_score == RatioOrZero(sentiment.sentiments.positive,
                                       sentiment.sentiments.positive
                                           + sentiment.sentiments.negative)
        content_score == ContentScore(video.analysis)
    IN  [title |-> video.title,
         score |-> FAdd(FAdd(FTimes(4, 10, engagement_rate), FTimes(3, 10, sentiment_score)),
                        FTimes(3, 10, content_score)),
         engagement_rate |-> engagement_rate,
         sentiment_score |-> sentiment_score,
         content_score |-> content_score]

\* zip(videos_data, videos_content_analysis, all_sentiments) stops at the
\* shortest list
ZippedScores(vids, sents) ==
    [i \in 1..Min(Len(vids), Len(sents)) |-> VideoScore(vids[i], sents[i])]

\* video_scores.sort(key=score, reverse=True)
SortedScores(scores) == SortReverse(scores, [i \in 1..Len(scores) |-> scores[i].score])

\* best_video = video_scores[0] raises IndexError on an empty list
BestOf(scores) ==
    IF scores = <<>> THEN [raised |-> TRUE, value |-> JNull]
    ELSE [raised |-> FALSE, value |-> scores[1]]

RecommendInit ==
    /\ \E n \in 1..MaxAnalysed : \E kinds \in [1..n -> AnalysedKinds] :
          videosData = [i \in 1..n |-> [kinds[i] EXCEPT !.title = i]]
    /\ allSentiments = <<>>
    /\ videoScores = <<>>
    /\ bestVideo = [raised |-> FALSE, value |-> JNull]
    /\ recPc = "comments"
    \* no run of the parser
    /\ pInput = NoneResponse
    /\ pBody = <<>>
    /\ pWrap = "alone"
    /\ pStage = "idle"
    /\ pFirst = Absent
    /\ pSecond = Absent
    \* no call of _safe_api_call
    /\ maxRetries = 0
    /\ initialDelay = 0
    /\ attempt = 0
    /\ delay = 0
    /\ lastError = NoError
    /\ response = NoneResponse
    /\ rcPc = "idle"
    /\ outcome = NotEnded
    /\ trace = <<>>
    /\ parserRuns = <<>>
    \* no call of display_sentiment_analysis
    /\ comments = <<>>
    /\ topComments = <<>>
    /\ batchStart = 0
    /\ allAnalyses = <<>>
    /\ sentiments = [positive |-> 0, negative |-> 0]
    /\ batchLog = <<>>
    /\ sPc = "idle"
    \* no call of SearchAnalyzer
    /\ query = <<>>
    /\ modelLoaded = FALSE
    /\ videos = <<>>
    /\ ranked = [raised |-> FALSE, value |-> <<>>]
    /\ transcript = [kind |-> "none", text |-> <<>>]
    /\ segments = <<>>
    /\ relevant = [raised |-> FALSE, value |-> <<>>]
    /\ timestamp = [kind |-> "int", text |-> <<>>]
    /\ seconds = [raised |-> FALSE, value |-> 0]
    /\ searchPc = "idle"
    \* no call of ChannelAnalyzer
    /\ chResponse = NoneResponse
    /\ chTitle = <<>>
    /\ chVideoCount = 0
    /\ chResult = [raised |-> FALSE, value |-> JNull]
    /\ chPc = "idle"
    \* no call of analyze_video_content
    /\ subAnalyses = <<>>
    /\ failedComponents = 0
    /\ contentResult = [raised |-> FALSE, value |-> JNull]
    /\ contentPc = "idle"
    \* no URL inputs
    /\ urlInputs = <<>>
    /\ newUrls = <<>>
    /\ urlIndex = 0
    /\ urlPc = "idle"

\* the comments analysis: for i, video_data in enumerate(videos_data)
AnalyseComments ==
    /\ recPc = "comments"
    /\ allSentiments' = CollectedSentiments(videosData, Len(videosData))
    /\ recPc' = "recommend"
    /\ UNCHANGED <<videosData, videoScores, bestVideo>>
    /\ UNCHANGED <<parserVars, retryVars, sentimentVars, searchVars, channelVars,
                   contentVars, urlVars>>

\* a single video: no recommendation
NoRecommendation ==
    /\ recPc = "recommend"
    /\ Len(videosData) <= 1
    /\ recPc' = "done"
    /\ UNCHANGED <<videosData, allSentiments, videoScores, bestVideo>>
    /\ UNCHANGED <<parserVars, retryVars, sentimentVars, searchVars, channelVars,
                   contentVars, urlVars>>

\* if len(videos_data) > 1: the scores, the sort and the best video
Recommend ==
    /\ recPc = "recommend"
    /\ Len(videosData) > 1
    /\ videoScores' = SortedScores(ZippedScores(videosData, allSentiments))
    /\ bestVideo' = BestOf(SortedScores(ZippedScores(videosData, allSentiments)))
    /\ recPc' = "done"
    /\ UNCHANGED <<videosData, allSentiments>>
    /\ UNCHANGED <<parserVars, retryVars, sentimentVars, searchVars, channelVars,
                   contentVars, urlVars>>

----------------------------------------------------------------------------
(* ChannelAnalyzer._clean_json_response                                    *)

\* \s of a pattern applied to a text that still holds its control characters
ReSpace == Whitespace \cup {"\f"}

\* block.strip()
StripBlock(s) ==
    LET kept == {k \in 1..Len(s) : s[k] \notin ReSpace} IN
    IF kept = {} THEN <<>>
    ELSE SubSeq(s, CHOOSE k \in kept : \A l \in kept : k <= l,
                   CHOOSE k \in kept : \A l \in kept : l <= k)

\* json_str before the search: the stripped first block of the fenced
\* response that holds both braces, else the response
SelectedText(text) ==
    LET blocks == Split(text, Fence) IN
    IF /\ Contains(text, Fence)
       /\ \E i \in 1..Len(blocks) :
             Contains(blocks[i], <<"{">>) /\ Contains(blocks[i], <<"}">>)
    THEN StripBlock(FirstBracedBlock(blocks, 1, text))
    ELSE text

\* re.search(r'\{[^}]+\}', s) from s[i] on: a "{", one character or more
\* that is no "}", and the first "}" after them; start = 0 when no match
RECURSIVE BraceMatch(_, _)
BraceMatch(s, i) ==
    IF i > Len(s) THEN [start |-> 0, end |-> 0]
    ELSE LET j == FindFrom(s, <<"}">>, i + 1) IN
         IF s[i] = "{" /\ j > i + 1 THEN [start |-> i, end |-> j]
         ELSE BraceMatch(s, i + 1)

\* if match: json_str = match.group(0)
MatchedText(s) ==
    LET m == BraceMatch(s, 1) IN
    IF m.start # 0 THEN SubSeq(s, m.start, m.end) ELSE s

\* the key pattern at s[i], with the \s of this parser
ChannelKeyMatch(s, i) ==
    LET a == SkipClass(s, i + 1, ReSpace)
        b == SkipClass(s, a + 1, IdentChar)
        c == SkipClass(s, b, ReSpace)
    IN  IF /\ s[i] \in {"{", ","}
           /\ a <= Len(s) /\ s[a] \in IdentStart
           /\ c <= Len(s) /\ s[c] = ":"
        THEN [a |-> a, b |-> b, c |-> c]
        ELSE [a |-> 0, b |-> 0, c |-> 0]

\* re.sub(r'([{,])\s*([a-zA-Z_][a-zA-Z0-9_]*)\s*:', r'\1"\2":', s)
RECURSIVE ChannelQuoteKeys(_, _)
ChannelQuoteKeys(s, i) ==
    IF i > Len(s) THEN <<>>
    ELSE LET m == ChannelKeyMatch(s, i) IN
         IF m.c # 0
         THEN <<s[i], "\"">> \o SubSeq(s, m.a, m.b - 1) \o <<"\"", ":">>
              \o ChannelQuoteKeys(s, m.c + 1)
         ELSE <<s[i]>> \o ChannelQuoteKeys(s, i + 1)

\* pat.lower() matches s at i whatever the case of the letters of s
MatchesIgnoringCase(s, i, pat) ==
    /\ i + Len(pat) - 1 <= Len(s)
    /\ LowerText(SubSeq(s, i, i + Len(pat) - 1)) = pat

\* re.sub(r'None|null|undefined', 'null', s, flags=re.IGNORECASE)
RECURSIVE ReplaceNulls(_, _)
ReplaceNulls(s, i) ==
    IF i > Len(s) THEN <<>>
    ELSE IF \/ MatchesIgnoringCase(s, i, <<"n","o","n","e">>)
            \/ MatchesIgnoringCase(s, i, <<"n","u","l","l">>)
         THEN <<"n","u","l","l">> \o ReplaceNulls(s, i + 4)
    ELSE IF MatchesIgnoringCase(s, i, <<"u","n","d","e","f","i","n","e","d">>)
         THEN <<"n","u","l","l">> \o ReplaceNulls(s, i + 9)
    ELSE <<s[i]>> \o ReplaceNulls(s, i + 1)

\* re.sub(r'True|true|False|false', lambda m: m.group(0).lower(), s)
LowerBooleans(s) == Replace(Replace(s, <<"T","r","u","e">>, <<"t","r","u","e">>), <<"F","a","l","s","e">>, <<"f","a","l","s","e">>)

\* re.sub(r',(\s*[}\]])', r'\1', s) when keep, where the whitespace stays,
\* and re.sub(r',\s*([}\]])', r'\1', s) otherwise
RECURSIVE DropCommas(_, _, _)
DropCommas(s, i, keep) ==
    IF i > Len(s) THEN <<>>
    ELSE LET j == SkipClass(s, i + 1, ReSpace) IN
         IF s[i] = "," /\ j <= Len(s) /\ s[j] \in {"}", "]"}
         THEN SubSeq(s, IF keep THEN i + 1 ELSE j, j) \o DropCommas(s, j + 1, keep)
         ELSE <<s[i]>> \o DropCommas(s, i + 1, keep)

\* the cleaning before the first json.loads
FirstPass(s) ==
    LET s1 == Replace(Replace(s, <<"\n">>, <<" ">>), <<"\\", "n">>, <<" ">>)
        s2 == ChannelQuoteKeys(s1, 1)
        s3 == Replace(s2, <<"'">>, <<"\"">>)
        s4 == ReplaceNulls(s3, 1)
        s5 == LowerBooleans(s4)
    IN  DropCommas(s5, 1, TRUE)

\* the characters re.sub(r'[^\[\]{}",:\-\d\w\s]', '', s) leaves
KeptChars == {"[", "]", "{", "}", "\"", ",", ":", "-"}
             \cup Digits \cup IdentStart \cup ReSpace

\* re.sub(r'([{\[]),\s*([}\]])', r'\1\2', s)
RECURSIVE DropLoneCommas(_, _)
DropLoneCommas(s, i) ==
    IF i > Len(s) THEN <<>>
    ELSE LET j == SkipClass(s, i + 2, ReSpace) IN
         IF /\ s[i] \in {"{", "["}
            /\ i + 1 <= Len(s) /\ s[i + 1] = ","
            /\ j <= Len(s) /\ s[j] \in {"}", "]"}
         THEN <<s[i], s[j]>> \o DropLoneCommas(s, j + 1)
         ELSE <<s[i]>> \o DropLoneCommas(s, i + 1)

\* re.sub(r':\s*([]},])', r':null\1', s)
RECURSIVE FillMissingValues(_, _)
FillMissingValues(s, i) ==
    IF i > Len(s) THEN <<>>
    ELSE LET j == SkipClass(s, i + 1, ReSpace) IN
         IF s[i] = ":" /\ j <= Len(s) /\ s[j] \in {"]", "}", ","}
         THEN <<":">> \o <<"n","u","l","l">> \o <<s[j]>> \o FillMissingValues(s, j + 1)
         ELSE <<s[i]>> \o FillMissingValues(s, i + 1)

\* the cleaning between the two json.loads
SecondPass(s) ==
    LET s1 == SelectSeq(s, LAMBDA c : c \in KeptChars)
        s2 == DropCommas(s1, 1, FALSE)
        s3 == DropLoneCommas(s2, 1)
    IN  FillMissingValues(s3, 1)

\* str(n) for n >= 0
RECURSIVE IntStr(_)
IntStr(n) ==
    LET d == <<"0","1","2","3","4","5","6","7","8","9">>[(n % 10) + 1] IN
    IF n < 10 THEN <<d>> ELSE Append(IntStr(n \div 10), d)

\* the record both except clauses return
FallbackRecord(title, video_count) ==
    JObj(<<JPair(<<"s","u","m","m","a","r","y">>, JStr(<<"A"," ","c","o","l","l","e","c","t","i","o","n"," ","o","f"," ">> \o IntStr(video_count) \o <<" ","v","i","d","e","o","s"," ","a","b","o","u","t"," ">> \o title)),
           JPair(<<"t","a","r","g","e","t","_","a","u","d","i","e","n","c","e">>, JStr(<<"G","e","n","e","r","a","l"," ","a","u","d","i","e","n","c","e">>)),
           JPair(<<"k","e","y","_","t","o","p","i","c","s">>, JArr(<<JStr(title)>>))>>)

\* the inner try: json.loads, and after a JSONDecodeError the second pass and
\* json.loads once more
ParseTwice(s, title, video_count) ==
    LET first == JsonLoads(s) IN
    IF first.ok THEN first.v
    ELSE LET second == JsonLoads(SecondPass(s)) IN
         IF second.ok THEN second.v ELSE FallbackRecord(title, video_count)

\* '```' in response raises TypeError for a response that is no string, and
\* the outer except answers with the record
clean_channel_json_response(resp, title, video_count) ==
    IF resp.kind # "str" THEN FallbackRecord(title, video_count)
    ELSE ParseTwice(FirstPass(MatchedText(SelectedText(resp.text))),
                    title, video_count)

\* the texts ChannelAnalyzer is run on: the texts of the other parser, and
\* texts that are no object
ChannelBodies == Bodies \cup {
    <<"[","1",","," ","2",",","]">>,                                   \* an array with a trailing comma
    <<"3">>,                                                     \* a number
    <<"{","a",":"," ","N","U","L","L",","," ","b",":"," ","U","n","d","e","f","i","n","e","d",",","}">>, \* tokens in other cases
    <<"{","\"","a","\"",":"," ","\"","x",".","\"",","," ","\"","b","\"",":","}">>, \* a value missing
    <<"{","}"," ","{","\"","a","\"",":","1","}">>,             \* an empty object before an object
    <<"[","{",",","}","]">>,                                 \* a lone comma
    <<"{","\"","a","\"",":","t","r","u","e",","," ","}">>      \* a comma and a space before the brace
}

ChannelTitles == {<<"A","I">>, <<"g","o"," ","n","o","w">>}
VideoCounts == {0, 7, 12}

ChannelInit ==
    \* no run of the parser
    /\ pInput = NoneResponse
    /\ pBody = <<>>
    /\ pWrap = "alone"
    /\ pStage = "idle"
    /\ pFirst = Absent
    /\ pSecond = Absent
    \* no call of _safe_api_call
    /\ maxRetries = 0
    /\ initialDelay = 0
    /\ attempt = 0
    /\ delay = 0
    /\ lastError = NoError
    /\ response = NoneResponse
    /\ rcPc = "idle"
    /\ outcome = NotEnded
    /\ trace = <<>>
    /\ parserRuns = <<>>
    \* no call of display_sentiment_analysis
    /\ comments = <<>>
    /\ topComments = <<>>
    /\ batchStart = 0
    /\ allAnalyses = <<>>
    /\ sentiments = [positive |-> 0, negative |-> 0]
    /\ batchLog = <<>>
    /\ sPc = "idle"
    \* no call of SearchAnalyzer
    /\ query = <<>>
    /\ modelLoaded = FALSE
    /\ videos = <<>>
    /\ ranked = [raised |-> FALSE, value |-> <<>>]
    /\ transcript = [kind |-> "none", text |-> <<>>]
    /\ segments = <<>>
    /\ relevant = [raised |-> FALSE, value |-> <<>>]
    /\ timestamp = [kind |-> "int", text |-> <<>>]
    /\ seconds = [raised |-> FALSE, value |-> 0]
    /\ searchPc = "idle"
    \* no call of analyze_video_content
    /\ subAnalyses = <<>>
    /\ failedComponents = 0
    /\ contentResult = [raised |-> FALSE, value |-> JNull]
    /\ contentPc = "idle"
    \* no recommendation
    /\ videosData = <<>>
    /\ allSentiments = <<>>
    /\ videoScores = <<>>
    /\ bestVideo = [raised |-> FALSE, value |-> JNull]
    /\ recPc = "idle"
    \* no URL inputs
    /\ urlInputs = <<>>
    /\ newUrls = <<>>
    /\ urlIndex = 0
    /\ urlPc = "idle"
    /\ \/ \E w \in Wraps, b \in ChannelBodies : chResponse = TextResponse(Wrap(w, b))
       \/ chResponse \in {NoneResponse, OtherResponse}
    /\ chTitle \in ChannelTitles
    /\ chVideoCount \in VideoCounts
    /\ chResult = [raised |-> FALSE, value |-> JNull]
    /\ chPc = "start"

\* summary_data = self._clean_json_response(response, title, playlist['video_count'])
CleanChannelResponse ==
    /\ chPc = "start"
    /\ chResult' = [raised |-> FALSE,
                    value |-> clean_channel_json_response(chResponse, chTitle, chVideoCount)]
    /\ chPc' = "done"
    /\ UNCHANGED <<chResponse, chTitle, chVideoCount>>
    /\ UNCHANGED <<parserVars, retryVars, sentimentVars, searchVars,
                   contentVars, recommendVars, urlVars>>

----------------------------------------------------------------------------
(* Runs of the parser: clean_json_response on a response, then on the      *)
(* serialisation of the record it returned                                 *)

ParserInit ==
    \* no call of ChannelAnalyzer, analyze_video_content or main
    /\ chResponse = NoneResponse
    /\ chTitle = <<>>
    /\ chVideoCount = 0
    /\ chResult = [raised |-> FALSE, value |-> JNull]
    /\ chPc = "idle"
    /\ subAnalyses = <<>>
    /\ failedComponents = 0
    /\ contentResult = [raised |-> FALSE, value |-> JNull]
    /\ contentPc = "idle"
    /\ videosData = <<>>
    /\ allSentiments = <<>>
    /\ videoScores = <<>>
    /\ bestVideo = [raised |-> FALSE, value |-> JNull]
    /\ recPc = "idle"
    /\ urlInputs = <<>>
    /\ newUrls = <<>>
    /\ urlIndex = 0
    /\ urlPc = "idle"
    /\ \/ \E w \in Wraps, b \in Bodies :
             /\ pInput = TextResponse(Wrap(w, b))
             /\ pBody = b
             /\ pWrap = w
       \/ /\ pInput \in {NoneResponse, OtherResponse}
          /\ pBody = <<>>
          /\ pWrap = "alone"
    /\ pStage = "input"
    /\ pFirst = Absent
    /\ pSecond = Absent
    \* no call of _safe_api_call
    /\ maxRetries = 0
    /\ initialDelay = 0
    /\ attempt = 0
    /\ delay = 0
    /\ lastError = NoError
    /\ response = NoneResponse
    /\ rcPc = "idle"
    /\ outcome = NotEnded
    /\ trace = <<>>
    /\ parserRuns = <<>>
    \* no call of display_sentiment_analysis
    /\ comments = <<>>
    /\ topComments = <<>>
    /\ batchStart = 0
    /\ allAnalyses = <<>>
    /\ sentiments = [positive |-> 0, negative |-> 0]
    /\ batchLog = <<>>
    /\ sPc = "idle"
    \* no call of SearchAnalyzer
    /\ query = <<>>
    /\ modelLoaded = FALSE
    /\ videos = <<>>
    /\ ranked = [raised |-> FALSE, value |-> <<>>]
    /\ transcript = [kind |-> "none", text |-> <<>>]
    /\ segments = <<>>
    /\ relevant = [raised |-> FALSE, value |-> <<>>]
    /\ timestamp = [kind |-> "int", text |-> <<>>]
    /\ seconds = [raised |-> FALSE, value |-> 0]
    /\ searchPc = "idle"

\* result = clean_json_response(response)
Repair ==
    /\ pStage = "input"
    /\ pFirst' = clean_json_response(pInput)
    /\ pStage' = "repaired"
    /\ UNCHANGED <<pInput, pBody, pWrap, pSecond>>
    /\ UNCHANGED <<retryVars, sentimentVars, searchVars, mainVars>>

\* clean_json_response(json.dumps(result)) for a result that is a record
ReRepair ==
    /\ pStage = "repaired"
    /\ ~pFirst.absent
    /\ pSecond' = clean_json_response(TextResponse(JsonDumps(pFirst.value)))
    /\ pStage' = "rerepaired"
    /\ UNCHANGED <<pInput, pBody, pWrap, pFirst>>
    /\ UNCHANGED <<retryVars, sentimentVars, searchVars, mainVars>>

----------------------------------------------------------------------------
(* Specifications                                                          *)

RetryNext ==
    \/ LoopExhausted
    \/ BeginAttempt
    \/ PredictRaises
    \/ PredictReturns
    \/ HandleResponse

\* one call of _safe_api_call
Spec == RetryInit /\ [][RetryNext]_vars

ParserNext == Repair \/ ReRepair

\* one run of the parser
SpecParser == ParserInit /\ [][ParserNext]_vars

SentimentNext == NoComments \/ SelectTop \/ AnalyzeBatch \/ FinishAnalysis

\* one call of display_sentiment_analysis
SpecSentiment == SentimentInit /\ [][SentimentNext]_vars

SegmentsNext == FindRelevantSegments

\* one call of _find_relevant_segments
SpecSegments == SegmentsInit /\ [][SegmentsNext]_vars

SearchNext == RankVideos \/ FindRelevantSegments

SpecSearch == SearchInit /\ [][SearchNext]_vars

UrlNext == EnterUrl \/ UrlsEntered

SpecUrls == UrlInit /\ [][UrlNext]_vars

ContentNext == AnalyzeVideoContent

SpecContent == ContentInit /\ [][ContentNext]_vars

RecommendNext == AnalyseComments \/ NoRecommendation \/ Recommend

SpecRecommend == RecommendInit /\ [][RecommendNext]_vars

\* a call of ChannelAnalyzer._clean_json_response
ChannelNext == CleanChannelResponse

SpecChannel == ChannelInit /\ [][ChannelNext]_vars

TimestampNext == TimestampToSeconds

\* one call of _timestamp_to_seconds
SpecTimestamp == TimestampInit /\ [][TimestampNext]_vars

----------------------------------------------------------------------------
(* Properties of _safe_api_call                                            *)

CallEvents == SelectSeq(trace, LAMBDA ev : ev.ev = "call")
SleepEvents == SelectSeq(trace, LAMBDA ev : ev.ev = "sleep")
LastCall == CallEvents[Len(CallEvents)]

\* the call of the capability raised, returned nothing, or returned a text
\* the parser finds no record in
FailedCall(ev) ==
    \/ ev.raised
    \/ Falsy(ev.resp)
    \/ clean_json_response(ev.resp).absent

\* the error string of a failed call
ErrorOf(ev) ==
    IF ev.raised THEN ev.err
    ELSE IF Falsy(ev.resp) THEN EmptyResponseError
    ELSE ParseFailedError

AllCallsFailed == \A i \in 1..Len(CallEvents) : FailedCall(CallEvents[i])

RECURSIVE Pow2(_)
Pow2(n) == IF n = 0 THEN 1 ELSE 2 * Pow2(n - 1)

\* the call has ended with the record the parser found in the last response
ReturnedParsedRecord ==
    /\ CallEvents # <<>>
    /\ ~FailedCall(LastCall)
    /\ outcome = ReturnedRecord(clean_json_response(LastCall.resp).value)

C1_EndsWithRecord ==
    maxRetries >= 1 /\ rcPc = "done" =>
        /\ outcome.kind = "return"
        /\ IsDict(outcome.value)
        /\ DictLen(outcome.value) > 0
        /\ \/ ReturnedParsedRecord
           \/ AllCallsFailed /\ outcome = ReturnedRecord(Sentinel(lastError))

\* an upper bound of the steps a call has left: three for each attempt not
\* begun and one for leaving the loop
StepsLeft ==
    CASE rcPc = "done" -> 0
      [] rcPc = "for" -> 3 * (maxRetries - attempt) + 1
      [] rcPc = "predict" -> 3 * (maxRetries - attempt)
      [] rcPc = "response" -> 3 * (maxRetries - attempt) - 1

\* C1: with max_retries >= 1 and whatever the capability does on each
\* attempt, a call of _safe_api_call ends (every step lowers a natural number
\* that is 0 only when the call has ended), and it ends by returning a record
\* with at least one key, which is the record parsed from the response of a
\* successful attempt or the sentinel; no exception leaves the call and None
\* is not returned.
C1_AlwaysReturnsRecord ==
    /\ [](outcome # Escaped /\ C1_EndsWithRecord)
    /\ [](StepsLeft \in Nat /\ (StepsLeft = 0 <=> rcPc = "done"))
    /\ [][StepsLeft' < StepsLeft]_vars

\* a call with three attempts, the last of which the capability raised in,
\* has ended with the sentinel
C1_Witness ==
    /\ rcPc = "done"
    /\ maxRetries = 3
    /\ Len(CallEvents) = 3
    /\ LastCall.raised
    /\ outcome = ReturnedRecord(Sentinel(lastError))

\* C2: when every attempt fails, the capability is called max_retries times,
\* never more, and the call then returns the sentinel, whose concepts and
\* summary fields carry the error string of the last failed attempt.
C2_SentinelAfterMaxAttempts ==
    /\ AllCallsFailed => Len(CallEvents) <= maxRetries
    /\ maxRetries >= 1 /\ rcPc = "done" /\ AllCallsFailed =>
          /\ Len(CallEvents) = maxRetries
          /\ outcome = ReturnedRecord(Sentinel(ErrorOf(LastCall)))
          /\ DictGet(outcome.value, <<"s","u","m","m","a","r","y">>)
                = JStr(<<"A","n","a","l","y","s","i","s"," ","f","a","i","l","e","d",":"," ">>
                       \o ErrorOf(LastCall))

\* three failed attempts with different errors: a raise, an empty response, then
\* a text with no record in it
C2_Witness ==
    /\ rcPc = "done"
    /\ maxRetries = 3
    /\ Len(CallEvents) = 3
    /\ AllCallsFailed
    /\ CallEvents[1].raised
    /\ ~CallEvents[2].raised /\ Falsy(CallEvents[2].resp)
    /\ ~LastCall.raised /\ ~Falsy(LastCall.resp)
    /\ lastError = ParseFailedError

C3_Schedule ==
    /\ \A p \in 1..Len(trace) : (trace[p].ev = "call") <=> (p % 2 = 1)
    /\ \A k \in 1..Len(SleepEvents) : SleepEvents[k].d = initialDelay * Pow2(k - 1)
    /\ Len(SleepEvents) = IF rcPc = "predict" THEN Len(CallEvents)
                          ELSE IF CallEvents = <<>> THEN 0
                          ELSE Len(CallEvents) - 1
    /\ rcPc = "done" /\ CallEvents # <<>> /\ ~FailedCall(LastCall) => ReturnedParsedRecord

\* C3: the trace of a call of _safe_api_call starts with a call of the
\* capability and alternates calls and sleeps, so there is no sleep before the
\* first attempt; the sleep before attempt k >= 2 lasts
\* initial_delay * 2^(k-2); a call that has ended has slept once less than it
\* called, so there is no sleep after the last attempt; the record of a
\* successful attempt is returned, and no step (no further call or sleep)
\* follows the end of the call.
C3_BackoffSchedule == []C3_Schedule /\ [][rcPc # "done"]_vars

\* two failed attempts, then a successful one, with an initial delay of 2
C3_Witness ==
    /\ rcPc = "done"
    /\ initialDelay = 2
    /\ Len(trace) = 5
    /\ FailedCall(trace[1]) /\ FailedCall(trace[3]) /\ ~FailedCall(trace[5])
    /\ trace[2] = SleepEvent(2) /\ trace[4] = SleepEvent(4)
    /\ ReturnedParsedRecord

\* the responses the capability returned that are not empty
RECURSIVE NonEmptyResponses(_, _)
NonEmptyResponses(calls, n) ==
    IF n = 0 THEN <<>>
    ELSE IF calls[n].raised \/ Falsy(calls[n].resp) THEN NonEmptyResponses(calls, n - 1)
    ELSE Append(NonEmptyResponses(calls, n - 1), calls[n].resp)

\* C4: each attempt calls the capability once; an attempt fails when the
\* capability raises, when it returns an empty response and when the parser
\* returns absent for a response that is not empty, each with its own error,
\* and a failed attempt is followed by another while attempts remain; the
\* parser is run on the responses that are not empty, once each, and never on
\* an empty one; an attempt whose response is repaired to a record ends the
\* loop with that record.
C4_AttemptOutcomes ==
    /\ Len(CallEvents) = IF rcPc = "response" \/ (rcPc = "done" /\ maxRetries >= 1)
                         THEN attempt + 1 ELSE attempt
    /\ \A i \in 1..Len(parserRuns) : ~Falsy(parserRuns[i])
    /\ parserRuns = NonEmptyResponses(CallEvents,
                        IF rcPc = "response" THEN Len(CallEvents) - 1 ELSE Len(CallEvents))
    /\ \A i \in 1..(Len(CallEvents) - 1) : FailedCall(CallEvents[i])
    /\ rcPc = "for" /\ attempt > 0 =>
          /\ FailedCall(LastCall)
          /\ lastError = ErrorOf(LastCall)
          /\ attempt < maxRetries
          /\ outcome = NotEnded
    /\ rcPc = "done" /\ CallEvents # <<>> =>
          IF FailedCall(LastCall)
          THEN /\ Len(CallEvents) = maxRetries
               /\ lastError = ErrorOf(LastCall)
          ELSE ReturnedParsedRecord

\* the three kinds of failure, each retried, and a fourth attempt not made:
\* the capability raised, then returned an empty response, then a text the
\* parser finds no record in
C4_Witness ==
    /\ rcPc = "done"
    /\ maxRetries = 3
    /\ Len(CallEvents) = 3
    /\ CallEvents[1].raised
    /\ ~CallEvents[2].raised /\ CallEvents[2].resp = TextResponse(<<>>)
    /\ ~LastCall.raised /\ ~Falsy(LastCall.resp) /\ FailedCall(LastCall)
    /\ Len(parserRuns) = 1

----------------------------------------------------------------------------
(* Properties of clean_json_response                                       *)

\* a value the parser may hand to its caller: None, or a record with a key
AbsentOrRecord(r) ==
    IF r.absent THEN r.value = JNull
    ELSE IsDict(r.value) /\ DictLen(r.value) > 0

\* C5: the value clean_json_response returns is None or a dict with at least
\* one key, for every input and for the serialisation of its own results;
\* an empty dict, a list, a scalar or a string is never returned.
C5_AbsentOrNonEmptyRecord ==
    /\ pStage # "input" => AbsentOrRecord(pFirst)
    /\ pStage = "rerepaired" => AbsentOrRecord(pSecond)

\* the empty object, in a fence behind prose, has been refused
C5_Witness ==
    /\ pStage = "repaired"
    /\ pBody = <<"{", "}">>
    /\ pWrap = "prose_fence"
    /\ pFirst = Absent

\* C6: clean_json_response raises nothing, whatever it is given (None, an
\* empty text, a response that is no text, text with no JSON in it, text
\* that is partly JSON): every run ends with a return, which is None
\* whenever no record was parsed.
C6_NeverRaises ==
    pStage # "input" =>
        /\ ~pFirst.raised
        /\ ~pSecond.raised
        /\ pFirst.absent => pFirst = Absent
        /\ pSecond.absent => pSecond = Absent

\* a response that is not a text, on which the membership test raises, has
\* been answered with None
C6_Witness ==
    /\ pStage = "repaired"
    /\ pInput = OtherResponse
    /\ pFirst = Absent

\* no "{" of the text has a "}" behind it
Unstructured(text) ==
    ~\E i \in 1..Len(text), j \in 1..Len(text) :
        i < j /\ text[i] = "{" /\ text[j] = "}"

\* C7: for None, an empty text and a text in which no "{" is followed later
\* by a "}", clean_json_response returns None.
C7_UnstructuredIsAbsent ==
    pStage # "input" /\ (Falsy(pInput) \/ (pInput.kind = "str" /\ Unstructured(pInput.text)))
        => pFirst = Absent

\* braces in the wrong order, in a fence behind prose
C7_Witness ==
    /\ pStage = "repaired"
    /\ pBody = <<"}", "x", "{">>
    /\ pWrap = "prose_fence"
    /\ Unstructured(pInput.text)
    /\ pFirst = Absent

\* C8: for every input clean_json_response finds a record in, it finds the
\* same record in the json.dumps serialisation of that record.
C8_Idempotent ==
    pStage = "rerepaired" => ~pSecond.absent /\ JEq(pSecond.value, pFirst.value)

\* the wraps that put prose without braces and a code fence around an object
PlainWraps == {"alone", "prose", "fence", "prose_fence"}

\* C9: for a strictly valid JSON object with a member, alone or inside prose
\* and a code fence, clean_json_response returns what json.loads returns for
\* the object.
C9_ValidInputPreserved ==
    pStage # "input" /\ pBody \in ValidBodies /\ pWrap \in PlainWraps =>
        /\ ~pFirst.absent
        /\ JEq(pFirst.value, JsonLoads(pBody).v)

----------------------------------------------------------------------------
(* Properties of the sentiment analysis                                    *)

\* C10: every verdict in all_analyses has the sentiment 'positive' or
\* 'negative', whatever label the model gave.
C10_VerdictSentimentNormalised ==
    \A i \in 1..Len(allAnalyses) : allAnalyses[i].sentiment \in {Positive, Negative}

\* ceil(n / b)
CeilDiv(n, b) == (n + b - 1) \div b

RECURSIVE VerdictsOf(_, _)
\* the verdicts of the first k batch calls, in order
VerdictsOf(log, k) ==
    IF k = 0 THEN <<>> ELSE VerdictsOf(log, k - 1) \o log[k].verdicts

\* the results list the model answered a batch call with
ResultsOf(call) == DictGet(call.analysis, ResultsKey).kids

\* the model answered with a list of records
HasResults(call) ==
    /\ IsDict(call.analysis)
    /\ ResultsKey \in DictKeys(call.analysis)
    /\ DictGet(call.analysis, ResultsKey).t = "arr"
    /\ \A j \in 1..Len(ResultsOf(call)) : IsDict(ResultsOf(call)[j])

\* the model answered with one record for each comment of the batch
Aligned(call) == HasResults(call) /\ Len(ResultsOf(call)) = Len(call.batch)

\* C11: the n selected comments are analysed in ceil(n / 20) batch calls,
\* the k-th of which is given the comments 20(k-1)+1 .. min(20k, n) in their
\* order (so the sizes are 20, ..., 20 and then n mod 20, or 20), each call
\* getting one answer of the retrying client; all_analyses is the verdicts of
\* the calls in order; when every answer has one result for each comment
\* there are n verdicts; and positive + negative is always the number of
\* verdicts accumulated.
C11_BatchesAndCounts ==
    LET n == Len(topComments) IN
    /\ Len(batchLog) <= CeilDiv(n, BATCH_SIZE)
    /\ sPc = "loop" => batchStart = BATCH_SIZE * Len(batchLog)
    /\ sPc = "done" => Len(batchLog) = CeilDiv(n, BATCH_SIZE)
    /\ \A k \in 1..Len(batchLog) :
          batchLog[k].batch = SubSeq(topComments, BATCH_SIZE * (k - 1) + 1,
                                     Min(BATCH_SIZE * k, n))
    /\ allAnalyses = VerdictsOf(batchLog, Len(batchLog))
    /\ sentiments.positive + sentiments.negative = Len(allAnalyses)
    /\ sPc = "done" /\ (\A k \in 1..Len(batchLog) : Aligned(batchLog[k]))
          => Len(allAnalyses) = n

\* 45 comments: three calls with 20, 20 and 5 comments, each answered with
\* one result for each comment, and 45 verdicts
C11_Witness ==
    /\ sPc = "done"
    /\ Len(topComments) = 45
    /\ Len(batchLog) = 3
    /\ Len(batchLog[1].batch) = 20 /\ Len(batchLog[2].batch) = 20 /\ Len(batchLog[3].batch) = 5
    /\ \A k \in 1..3 : Aligned(batchLog[k])
    /\ Len(allAnalyses) = 45
    /\ sentiments.positive + sentiments.negative = 45

\* the verdicts of a call whose result gives the sentiment 'positive'
PositiveResults(call) ==
    {j \in 1..Len(call.verdicts) :
        /\ SentimentKey \in DictKeys(ResultsOf(call)[j])
        /\ DictGet(ResultsOf(call)[j], SentimentKey) = Positive}

RECURSIVE PositiveTotal(_, _)
PositiveTotal(log, k) ==
    IF k = 0 THEN 0 ELSE PositiveTotal(log, k - 1) + Cardinality(PositiveResults(log[k]))

\* C12: positive counts the verdicts whose result gives the sentiment
\* 'positive' exactly; every other verdict, whose result gives 'neutral' or
\* any other label or no sentiment at all, is counted in negative.
C12_OnlyExactPositiveCounts ==
    /\ sentiments.positive = PositiveTotal(batchLog, Len(batchLog))
    /\ sentiments.negative = Len(allAnalyses) - PositiveTotal(batchLog, Len(batchLog))

\* a batch of 20 answered with the labels neutral, positive, Positive, none
\* and negative in turn: 4 are counted positive and 16 negative
C12_Witness ==
    /\ sPc = "done"
    /\ Len(batchLog) = 1
    /\ Len(allAnalyses) = 20
    /\ allAnalyses[1].sentiment = JStr(<<"n","e","u","t","r","a","l">>)
    /\ allAnalyses[3].sentiment = JStr(<<"P","o","s","i","t","i","v","e">>)
    /\ SentimentKey \notin DictKeys(ResultsOf(batchLog[1])[4])
    /\ sentiments = [positive |-> 4, negative |-> 16]

\* the verdict made of a comment and a result, field by field
VerdictMatches(v, comment, result) ==
    /\ v.text = comment.text
    /\ v.likes = comment.likes
    /\ v.sentiment = IF SentimentKey \in DictKeys(result)
                     THEN DictGet(result, SentimentKey) ELSE Negative
    /\ v.confidence = IF ConfidenceKey \in DictKeys(result)
                      THEN DictGet(result, ConfidenceKey) ELSE JStr(<<"l","o","w">>)
    /\ v.key_phrases = IF KeyPhrasesKey \in DictKeys(result)
                       THEN DictGet(result, KeyPhrasesKey) ELSE JArr(<<>>)

\* C13: a batch call answered with k results for its m comments returns
\* min(k, m) verdicts, the i-th of which has the text and likes of the i-th
\* comment and the labels of the i-th result; the comments or results beyond
\* min(k, m) are left out.
C13_PositionalAlignment ==
    \A c \in 1..Len(batchLog) :
        HasResults(batchLog[c]) =>
            LET call == batchLog[c]
                k == Len(ResultsOf(call))
                m == Len(call.batch)
            IN  /\ Len(call.verdicts) = Min(k, m)
                /\ \A i \in 1..Len(call.verdicts) :
                      VerdictMatches(call.verdicts[i], call.batch[i], ResultsOf(call)[i])

\* a batch of 20 answered with 19 results and a batch of 20 answered with 21
C13_Witness ==
    /\ Len(batchLog) >= 2
    /\ HasResults(batchLog[1]) /\ HasResults(batchLog[2])
    /\ Len(batchLog[1].batch) = 20 /\ Len(ResultsOf(batchLog[1])) = 19
    /\ Len(batchLog[1].verdicts) = 19
    /\ Len(batchLog[2].batch) = 20 /\ Len(ResultsOf(batchLog[2])) = 21
    /\ Len(batchLog[2].verdicts) = 20

----------------------------------------------------------------------------
(* Fence handling of clean_json_response                                   *)

\* the fenced blocks of a text: the parts between an opening fence and the
\* fence closing it, which are the even parts of the text split at fences
FencedBlocks(text) ==
    LET parts == Split(text, Fence) IN
    [k \in 1..(Len(parts) \div 2) |-> parts[2 * k]]

HasBraces(block) == Contains(block, <<"{">>) /\ Contains(block, <<"}">>)

\* C20: for a text with a fenced block that has both braces, the result of
\* clean_json_response is what it makes of the first such fenced block alone;
\* prose outside the fences, with braces of its own, is not taken instead.
C20_FencedBlockPreferred ==
    pStage # "input" /\ pInput.kind = "str" =>
        LET blocks == FencedBlocks(pInput.text) IN
        \A k \in 1..Len(blocks) :
            HasBraces(blocks[k]) /\ (\A j \in 1..(k - 1) : ~HasBraces(blocks[j]))
                => pFirst = clean_json_response(TextResponse(blocks[k]))

----------------------------------------------------------------------------
(* Properties of _timestamp_to_seconds                                     *)

\* a label of two parts of digits only, minutes and seconds
WellFormedLabel(ts) ==
    /\ ts.kind = "str"
    /\ LET parts == Split(ts.text, <<":">>) IN
       /\ Len(parts) = 2
       /\ \A k \in 1..2 : parts[k] # <<>> /\ \A i \in 1..Len(parts[k]) : parts[k][i] \in Digits

\* C18: _timestamp_to_seconds raises for no value; it returns an integer,
\* which is 0 for every value that is not a label of minutes and seconds.
C18_MalformedIsZero ==
    searchPc = "converted" =>
        /\ ~seconds.raised
        /\ seconds.value \in Int
        /\ ~WellFormedLabel(timestamp) => seconds.value = 0

----------------------------------------------------------------------------
(* Properties of the transcript segmentation                               *)

\* a line "[MM:SS] text", and a continuation line: text with no bracket
\* and no space around it
TimedLine(line) ==
    /\ Len(line) >= 9
    /\ line[1] = "[" /\ line[4] = ":" /\ line[7] = "]" /\ line[8] = " "
    /\ \A i \in {2, 3, 5, 6} : line[i] \in Digits
    /\ \A i \in 9..Len(line) : line[i] \in Lower
ContinuationLine(line) ==
    /\ line # <<>>
    /\ \A i \in 1..Len(line) : line[i] \in Lower

LabelOf(line) == SubSeq(line, 2, 6)
TextOf(line) == IF TimedLine(line) THEN SubSeq(line, 9, Len(line)) ELSE line
SecondsOfLabel(l) ==
    (10 * DigitValue(l[1]) + DigitValue(l[2])) * 60 + 10 * DigitValue(l[4]) + DigitValue(l[5])

\* the lines of the transcript of the call
LinesOfTranscript == Split(transcript.text, <<"\n">>)

\* the lines that open a segment: the timed lines, and the first line
Openers(lines) == {i \in 1..Len(lines) : i = 1 \/ TimedLine(lines[i])}

\* the k-th smallest member of a set of numbers
RECURSIVE Kth(_, _)
Kth(set, k) ==
    LET least == CHOOSE x \in set : \A y \in set : x <= y IN
    IF k = 1 THEN least ELSE Kth(set \ {least}, k - 1)

\* the last line of the segment opened at line i
LastLineOf(lines, i) ==
    IF \E j \in Openers(lines) : j > i
    THEN (CHOOSE j \in Openers(lines) : j > i /\ \A x \in Openers(lines) : x > i => j <= x) - 1
    ELSE Len(lines)

\* the segment opened at line i
ExpectedSegment(lines, i) ==
    [timestamp |-> IF TimedLine(lines[i]) THEN Label(LabelOf(lines[i])) ELSE IntTimestamp,
     text |-> JoinSpace([j \in 1..(LastLineOf(lines, i) - i + 1) |-> TextOf(lines[i + j - 1])]),
     seconds |-> IF TimedLine(lines[i]) THEN SecondsOfLabel(LabelOf(lines[i])) ELSE 0]

\* C17: for a transcript of lines "[MM:SS] text" and continuation lines,
\* the segments are, in the order of the lines, one for each timed line (and
\* one for the continuation lines before the first timed line, if any); a
\* segment has the label of its timed line, minutes * 60 + seconds of that
\* label as seconds, and as text the text of the timed line and the
\* continuation lines up to the next timed line or the end of the
\* transcript, joined by single spaces.
C17_Segmentation ==
    /\ searchPc = "segmented"
    /\ ~NothingToSearch(transcript, query)
    /\ \A i \in 1..Len(LinesOfTranscript) :
          TimedLine(LinesOfTranscript[i]) \/ ContinuationLine(LinesOfTranscript[i])
    => /\ Len(segments) = Cardinality(Openers(LinesOfTranscript))
       /\ \A k \in 1..Len(segments) :
             segments[k] = ExpectedSegment(LinesOfTranscript, Kth(Openers(LinesOfTranscript), k))

\* "[00:10] hello", "world", "[01:05] next" gives (10, "hello world") and
\* (65, "next")
C17_Witness ==
    /\ searchPc = "segmented"
    /\ transcript = TranscriptText(
           <<"[","0","0",":","1","0","]"," ","h","e","l","l","o","\n",
             "w","o","r","l","d","\n",
             "[","0","1",":","0","5","]"," ","n","e","x","t">>)
    /\ Len(segments) = 2
    /\ segments[1].seconds = 10
    /\ segments[1].text = <<"h","e","l","l","o"," ","w","o","r","l","d">>
    /\ segments[2].seconds = 65
    /\ segments[2].text = <<"n","e","x","t">>

\* C19: the seconds of every segment are a whole number that is not
\* negative, whatever the labels in the transcript are.
C19_SecondsNotNegative ==
    \A k \in 1..Len(segments) : segments[k].seconds \in Nat

----------------------------------------------------------------------------
(* Properties of rank_videos                                               *)

\* the final_score of a candidate of the call
CandidateScore(video) ==
    FinalScore(Similarity(Encode(query), get_video_embedding(video)),
               calculate_engagement_score(video))

\* the candidates the call returned
ReturnedIds == {ranked.value[i].video.video_id : i \in 1..Len(ranked.value)}

\* the call got to its end without an internal error
RankedAll ==
    /\ searchPc = "ranked"
    /\ modelLoaded
    /\ \A i \in 1..Len(videos) :
          /\ videos[i].missing \notin {"title", "description", "tags", "publishedAt"}
          /\ videos[i].publishedAt.ok

\* C14: rank_videos returns at most 3 results, no result has a smaller
\* final_score than a later one, results of equal final_score are in their
\* input order, and the results are the 3 candidates of highest score: no
\* candidate left out has a greater score than a result.
C14_TopThreeInOrder ==
    RankedAll =>
        /\ Len(ranked.value) = Min(3, Len(videos))
        /\ \A i, j \in 1..Len(ranked.value) :
              i < j => /\ ~FLt(ranked.value[i].final_score, ranked.value[j].final_score)
                       /\ ranked.value[i].final_score = ranked.value[j].final_score
                          => ranked.value[i].video.video_id < ranked.value[j].video.video_id
        /\ \A i \in 1..Len(ranked.value) :
              /\ \E k \in 1..Len(videos) : ranked.value[i].video = videos[k]
              /\ ranked.value[i].final_score = CandidateScore(ranked.value[i].video)
              /\ \A k \in 1..Len(videos) :
                    k \notin ReturnedIds => ~FGt(CandidateScore(videos[k]), ranked.value[i].final_score)

\* something raises inside the try of rank_videos
RankInternalError ==
    /\ videos # <<>>
    /\ \/ ~modelLoaded
       \/ \E i \in 1..Len(videos) :
             \/ videos[i].missing \in {"title", "description", "tags", "publishedAt"}
             \/ ~videos[i].publishedAt.ok

\* C15: no exception leaves rank_videos or _find_relevant_segments, and a
\* call in which something raises internally (a date that does not parse,
\* a missing field, no model) returns the empty list.
C15_InternalErrorGivesEmpty ==
    /\ searchPc = "ranked"
       => /\ ~ranked.raised
          /\ RankInternalError => ranked.value = <<>>
    /\ searchPc = "segmented"
       => /\ ~relevant.raised
          /\ ~NothingToSearch(transcript, query) /\ ~modelLoaded => relevant.value = <<>>

\* two candidates that rank and one whose date does not parse: nothing is
\* returned
C15_Witness ==
    /\ searchPc = "ranked"
    /\ modelLoaded
    /\ Len(videos) = 3
    /\ \A i \in 1..3 : videos[i].missing = "none"
    /\ videos[1].publishedAt.ok /\ videos[2].publishedAt.ok /\ ~videos[3].publishedAt.ok
    /\ ranked = [raised |-> FALSE, value |-> <<>>]

\* C16: the similarity of a result is 0 when the vector of the query or of
\* the candidate is the zero vector, and 1 when the two vectors are the same
\* and not zero.
C16_ZeroVectorGivesZero ==
    \A i \in 1..Len(ranked.value) :
        LET q == Encode(query)
            c == get_video_embedding(ranked.value[i].video)
        IN  /\ q = ZeroVector \/ c = ZeroVector => ranked.value[i].similarity = Fl(0)
            /\ q = c /\ q # ZeroVector => ranked.value[i].similarity = Fl(Scale)

----------------------------------------------------------------------------
(* Properties of the selection of comments                                 *)

\* comment c goes before comment d in the selection: more likes, or as
\* many likes and an earlier place in the input (text is that place)
GoesBefore(c, d) == c.likes > d.likes \/ (c.likes = d.likes /\ c.text < d.text)

\* C23: the comments selected are min(n, 100) comments of the input, in
\* order of likes descending with equal likes in input order; every comment
\* left out goes after every comment selected; every batch is made of
\* selected comments, and at most 5 batches are issued.
C23_TopHundredSelected ==
    sPc \in {"loop", "done"} /\ comments # <<>> =>
        /\ Len(topComments) = Min(Len(comments), 100)
        /\ \A k \in 1..Len(topComments) : \E i \in 1..Len(comments) : topComments[k] = comments[i]
        /\ \A k, l \in 1..Len(topComments) : k < l => GoesBefore(topComments[k], topComments[l])
        /\ \A i \in 1..Len(comments) :
              (\A k \in 1..Len(topComments) : topComments[k] # comments[i])
              => \A k \in 1..Len(topComments) : GoesBefore(topComments[k], comments[i])
        /\ Len(batchLog) <= 5
        /\ \A b \in 1..Len(batchLog) : \A j \in 1..Len(batchLog[b].batch) :
              \E k \in 1..Len(topComments) : batchLog[b].batch[j] = topComments[k]

\* 105 comments of ascending likes: the last one is selected first, the
\* first five are left out, and five batches were issued
C23_Witness ==
    /\ sPc = "done"
    /\ Len(comments) = 105
    /\ comments[105].likes > comments[1].likes
    /\ topComments[1] = comments[105]
    /\ topComments[100] = comments[6]
    /\ Len(batchLog) = 5

----------------------------------------------------------------------------
(* Properties of a failed batch                                            *)

\* the answer to a batch call has no results, or results that are no list
\* of records
FailedBatch(call) ==
    \/ ~IsDict(call.analysis)
    \/ ResultsKey \notin DictKeys(call.analysis)
    \/ DictGet(call.analysis, ResultsKey).t # "arr"
    \/ \E j \in 1..Min(Len(call.batch), Len(DictGet(call.analysis, ResultsKey).kids)) :
          ~IsDict(DictGet(call.analysis, ResultsKey).kids[j])

\* the place of the comment a verdict is about in the selection
PlaceOf(verdict) == CHOOSE k \in 1..Len(topComments) : topComments[k].text = verdict.text

RECURSIVE TotalVerdicts(_, _)
TotalVerdicts(log, k) == IF k = 0 THEN 0 ELSE TotalVerdicts(log, k - 1) + Len(log[k].verdicts)

\* C28: a batch answered with the sentinel record or with malformed
\* results gives no verdicts and adds nothing to the counts; the batches
\* after it are still called, each with its own comments, so that at the
\* end every batch has been called; and the verdicts are in the order of the
\* selected comments.
C28_FailedBatchIsSkipped ==
    /\ \A b \in 1..Len(batchLog) : FailedBatch(batchLog[b]) => batchLog[b].verdicts = <<>>
    /\ sentiments.positive + sentiments.negative = TotalVerdicts(batchLog, Len(batchLog))
    /\ Len(allAnalyses) = TotalVerdicts(batchLog, Len(batchLog))
    /\ sPc = "done" => Len(batchLog) = CeilDiv(Len(topComments), BATCH_SIZE)
    /\ \A b \in 1..Len(batchLog) : \A j \in 1..Len(batchLog[b].batch) :
          batchLog[b].batch[j] = topComments[BATCH_SIZE * (b - 1) + j]
    /\ \A k, l \in 1..Len(allAnalyses) :
          k < l => PlaceOf(allAnalyses[k]) < PlaceOf(allAnalyses[l])

\* the first batch is answered with the sentinel record, the second with a
\* result for each comment, the third with malformed results: the verdicts
\* are those of the second batch
C28_Witness ==
    /\ sPc = "done"
    /\ Len(batchLog) = 3
    /\ batchLog[1].analysis = Sentinel(ParseFailedError)
    /\ Aligned(batchLog[2])
    /\ HasResults(batchLog[2]) /\ Len(batchLog[2].verdicts) = BATCH_SIZE
    /\ ResultsKey \in DictKeys(batchLog[3].analysis) /\ FailedBatch(batchLog[3])
    /\ Len(allAnalyses) = BATCH_SIZE
    /\ allAnalyses[1].text = topComments[BATCH_SIZE + 1].text

----------------------------------------------------------------------------
(* Properties of the scores                                                *)

\* likeCount / max(viewCount, 1)
LikesPerView(video) ==
    Fl((video.likes * Scale) \div (IF video.views > 1 THEN video.views ELSE 1))

\* C24: the engagement score of a result is 0.4 * (likes / max(views, 1))
\* + 0.6 * recency boost, the ratio being likes / 1 for a video with no
\* views, and its final score is 0.5 * similarity + 0.5 * engagement score.
C24_EngagementFormula ==
    \A i \in 1..Len(ranked.value) :
        LET item == ranked.value[i] IN
        item.video.missing = "none" =>
            /\ item.engagement_score =
                  FAdd(FTimes(4, 10, LikesPerView(item.video)),
                       FTimes(6, 10, RecencyBoost(item.video.publishedAt.days)))
            /\ item.final_score =
                  FAdd(FTimes(5, 10, item.similarity), FTimes(5, 10, item.engagement_score))

----------------------------------------------------------------------------
(* Properties of the relevant segments                                     *)

\* the similarity of the query of the call and a segment
SegmentSimilarity(segment) == Similarity(Encode(query), Encode(segment.text))

\* the segments of similarity 0.5 or more, by their places in segments
AtLeastFloor ==
    {i \in 1..Len(segments) :
        /\ ~SegmentSimilarity(segments[i]).nan
        /\ SegmentSimilarity(segments[i]).v * 2 >= Scale}

\* segment i goes before segment j in the result
RanksBefore(i, j) ==
    \/ SegmentSimilarity(segments[i]).v > SegmentSimilarity(segments[j]).v
    \/ SegmentSimilarity(segments[i]).v = SegmentSimilarity(segments[j]).v /\ i < j

\* C25: the result is the first 3 of the segments of similarity 0.5 or
\* more, ordered by similarity descending, equal similarities in transcript
\* order; a segment below 0.5 is not in it.
C25_FloorAndTopThree ==
    searchPc = "segmented" /\ modelLoaded /\ ~NothingToSearch(transcript, query) =>
        /\ Len(relevant.value) = Min(3, Cardinality(AtLeastFloor))
        /\ \A k \in 1..Len(relevant.value) :
              \E i \in AtLeastFloor :
                 /\ relevant.value[k] = Scored(segments[i], SegmentSimilarity(segments[i]))
                 /\ Cardinality({j \in AtLeastFloor : RanksBefore(j, i)}) = k - 1

\* a non-blank line with both brackets
Bracketed(line) ==
    /\ \E i \in 1..Len(line) : line[i] = "["
    /\ \E i \in 1..Len(line) : line[i] = "]"
    /\ \E i \in 1..Len(line) : line[i] \notin {" ", "\n"}

\* a non-blank line that is not bracketed
Unbracketed(line) ==
    /\ ~Bracketed(line)
    /\ \E i \in 1..Len(line) : line[i] \notin {" ", "\n"}

\* C26: there is one segment for each bracketed line of the transcript, and
\* one more when unbracketed lines go before the first bracketed line.
C26_OneSegmentForEachLabel ==
    searchPc = "segmented" /\ ~NothingToSearch(transcript, query) =>
        LET lines == LinesOfTranscript
            labels == {i \in 1..Len(lines) : Bracketed(lines[i])}
            leading == {i \in 1..Len(lines) :
                          Unbracketed(lines[i]) /\ \A j \in labels : i < j}
        IN  Len(segments) = Cardinality(labels) + (IF leading # {} THEN 1 ELSE 0)

----------------------------------------------------------------------------
(* Properties of the URL inputs                                            *)

\* two urls resolve to the same video ID, which is not empty
SameVideo(u, v) ==
    /\ ~NoId(extract_video_id(u))
    /\ extract_video_id(u) = extract_video_id(v)

\* C30: new_urls never holds two urls that resolve to the same non-empty
\* video ID; an input is judged a duplicate, and not appended, exactly when
\* its video ID is not empty and is the video ID of a url of new_urls; every
\* other non-empty input is appended.
C30_NoTwoUrlsOfOneVideo ==
    /\ [](\A i, j \in 1..Len(newUrls) : i < j => ~SameVideo(newUrls[i], newUrls[j]))
    /\ [][urlIndex' = urlIndex + 1 =>
            LET url == urlInputs[urlIndex + 1] IN
            IF url = <<>> \/ \E k \in 1..Len(newUrls) : SameVideo(url, newUrls[k])
            THEN newUrls' = newUrls
            ELSE newUrls' = Append(newUrls, url)]_vars

\* the watch, youtu.be and shorts urls of one video: the first is accepted
C30_Witness ==
    /\ urlPc = "entered"
    /\ urlInputs = <<<<"h","t","t","p","s",":","/","/","w","w","w",".","y","o","u","t","u","b","e",".","c","o","m","/","w","a","t","c","h","?","v","=","A">>,
                     <<"h","t","t","p","s",":","/","/","y","o","u","t","u",".","b","e","/","A">>,
                     <<"h","t","t","p","s",":","/","/","w","w","w",".","y","o","u","t","u","b","e",".","c","o","m","/","s","h","o","r","t","s","/","A">>>>
    /\ newUrls = <<<<"h","t","t","p","s",":","/","/","w","w","w",".","y","o","u","t","u","b","e",".","c","o","m","/","w","a","t","c","h","?","v","=","A">>>>

----------------------------------------------------------------------------
(* Properties of analyze_video_content                                     *)

\* C27: failed_components is the number of the three sub-analyses for
\* which _safe_api_call returned its fallback record.
C27_FailedComponentsCounted ==
    contentPc = "done" =>
        failedComponents = Cardinality({i \in 1..3 : subAnalyses[i].exhausted})

----------------------------------------------------------------------------
(* Properties of the recommendation                                        *)

\* C29: when two or more videos were analysed, every video has a score, the
\* sentiment score of a video with comments enabled is the share of
\* positive verdicts in the tallies of that video, and there is a best video.
C29_ScoresOfTheSameVideo ==
    recPc = "done" /\ Len(videosData) > 1 =>
        /\ ~bestVideo.raised
        /\ \E k \in 1..Len(videoScores) : bestVideo.value = videoScores[k]
        /\ \A i \in 1..Len(videosData) :
              \E k \in 1..Len(videoScores) :
                 /\ videoScores[k].title = videosData[i].title
                 /\ videosData[i].comments_enabled =>
                       videoScores[k].sentiment_score =
                           RatioOrZero(videosData[i].tallies.positive,
                                       videosData[i].tallies.positive
                                           + videosData[i].tallies.negative)

----------------------------------------------------------------------------
(* Properties of ChannelAnalyzer._clean_json_response                      *)

\* text[text.find('{') : text.rfind('}') + 1]
OutermostSpan(text) ==
    SubSeq(text, FindFrom(text, <<"{">>, 1), RFindChar(text, "}", Len(text)))

\* the text has a "{" and, after it, a "}"
HasSpan(text) ==
    /\ FindFrom(text, <<"{">>, 1) >= 1
    /\ RFindChar(text, "}", Len(text)) > FindFrom(text, <<"{">>, 1)

\* C21: on a response whose selected text has a "{" before a "}", the
\* candidate of both parsers is the text from the first "{" to the last "}"
\* of the selected text, and neither stops at the first "}".
C21_CandidateIsOutermostSpan ==
    chPc = "done" /\ chResponse.kind = "str" /\ HasSpan(SelectedText(chResponse.text)) =>
        /\ extract_json_candidate(chResponse.text).found
        /\ extract_json_candidate(chResponse.text).text
               = OutermostSpan(SelectedText(chResponse.text))
        /\ MatchedText(SelectedText(chResponse.text))
               = OutermostSpan(SelectedText(chResponse.text))

\* C22: what ChannelAnalyzer._clean_json_response returns is the absent
\* result, or a record with a member or more that the first json.loads gave
\* or, when that one failed, the json.loads after the second pass; it is
\* never an empty record, a list, a scalar or a record made up by the parser.
C22_ParsedRecordOrAbsent ==
    chPc = "done" =>
        \/ chResult.value = JNull
        \/ /\ chResponse.kind = "str"
           /\ IsDict(chResult.value)
           /\ DictLen(chResult.value) > 0
           /\ chResult.value # FallbackRecord(chTitle, chVideoCount)
           /\ \/ JsonLoads(FirstPass(MatchedText(SelectedText(chResponse.text))))
                    = [ok |-> TRUE, v |-> chResult.value,
                       next |-> JsonLoads(FirstPass(MatchedText(SelectedText(chResponse.text)))).next]
              \/ /\ ~JsonLoads(FirstPass(MatchedText(SelectedText(chResponse.text)))).ok
                 /\ JsonLoads(SecondPass(FirstPass(MatchedText(SelectedText(chResponse.text))))).ok
                 /\ JsonLoads(SecondPass(FirstPass(MatchedText(SelectedText(chResponse.text))))).v
                        = chResult.value

====
